---- MODULE Spec2Model ----
(***************************************************************************)
(* A model of anima's bar quantizer (containers/bar.py), its Melody        *)
(* container (containers/melody.py), the tempo utility                     *)
(* (utils/tools.py) and the timeline renderer (utils/midi.py).             *)
(*                                                                         *)
(* Durations are Python floats.  They are modelled as binary floating      *)
(* point numbers with a Precision-bit significand on a grid of             *)
(* 2^-FracBits seconds: a value is held as its integer number of grid      *)
(* units, and every arithmetic operation rounds its exact result to the    *)
(* nearest representable value, ties to even, as IEEE-754 does (Python     *)
(* has a 53-bit significand; the grid plays the part of the subnormal      *)
(* range, where additions are exact).                                      *)
(***************************************************************************)
EXTENDS Integers, Sequences, FiniteSets, TLC

VARIABLES
    bar,      \* the Bar object the caller holds
    hasBar,   \* whether a Bar has been constructed
    mel,      \* the Melody the caller holds (add_notes returns the same object)
    err,      \* the exception the last call raised, "none" when it returned
    last,     \* the last call: <<name, arguments>>
    rin,      \* the renderer's input: <<kind, part, start_time>>
    rout,     \* the renderer's result: [events, cursor, err]
    fin,      \* a call of a generation or transform function: <<name, arguments>>
    fout      \* what that call returned or raised

barVars == <<bar, hasBar, mel, err, last>>
renderVars == <<rin, rout>>
callVars == <<fin, fout>>
vars == <<bar, hasBar, mel, err, last, rin, rout, fin, fout>>

(***************************************************************************)
(* Bounds of the model.                                                    *)
(***************************************************************************)
\* significand bits of the modelled float format
Precision == 4
\* the grid is 2^-FracBits seconds
FracBits == 1
\* longest melody a caller builds
MaxLen == 4

\* body applied to the value of e, which is evaluated once
Let(e, body(_)) == CHOOSE out \in {body(v) : v \in {e}} : TRUE

RECURSIVE Pow2(_)
Pow2(n) == IF n <= 0 THEN 1 ELSE 2 * Pow2(n - 1)

UnitsPerSecond == Pow2(FracBits)

\* n half-seconds, as grid units (FracBits >= 1)
Half(n) == n * Pow2(FracBits - 1)
\* n whole seconds, as grid units
Sec(n) == n * UnitsPerSecond

(***************************************************************************)
(* Floating point arithmetic.                                              *)
(***************************************************************************)
Abs(x) == IF x < 0 THEN -x ELSE x

\* spacing of the representable values at magnitude x (x >= 0, grid units)
RECURSIVE Ulp(_)
Ulp(x) == IF x < Pow2(Precision) THEN 1 ELSE 2 * Ulp(x \div 2)

\* the multiple of q nearest to the rational a/b (a >= 0, b > 0), ties to the
\* even multiple
RoundRatTo(a, b, q) ==
    LET k == a \div (b * q)
        r == a - k * b * q
    IN  IF 2 * r < b * q THEN k * q
        ELSE IF 2 * r > b * q THEN (k + 1) * q
        ELSE IF k % 2 = 0 THEN k * q ELSE (k + 1) * q

\* the representable value nearest to the rational n/d (grid units, d > 0)
Nearest(n, d) ==
    IF n < 0 THEN 0 - RoundRatTo(-n, d, Ulp((-n) \div d))
    ELSE RoundRatTo(n, d, Ulp(n \div d))

\* the float an operation returns for the exact result a/b; the operands are
\* evaluated once, before the rounding
FlRat(a, b) == Let(<<a, b>>, LAMBDA q : Nearest(q[1], q[2]))

Fl(x) == FlRat(x, 1)

FAdd(x, y) == Fl(x + y)
FSub(x, y) == Fl(x - y)
FMul(x, y) == FlRat(x * y, UnitsPerSecond)
FDiv(x, y) == FlRat(x * UnitsPerSecond, y)

\* float(n) of a Python int n
FromInt(n) == Fl(n * UnitsPerSecond)

\* round(x, 3): the decimal k/1000 nearest to x, as the float nearest to it
Round3(x) ==
    LET k == IF x < 0 THEN 0 - RoundRatTo((-x) * 1000, UnitsPerSecond, 1)
             ELSE RoundRatTo(x * 1000, UnitsPerSecond, 1)
    IN  FlRat(k * UnitsPerSecond, 1000)

\* sum(xs): Python's left-to-right float summation
RECURSIVE FSum(_)
FSum(xs) == IF xs = <<>> THEN 0 ELSE FAdd(FSum(SubSeq(xs, 1, Len(xs) - 1)), xs[Len(xs)])

(***************************************************************************)
(* utils/tools.py                                                          *)
(***************************************************************************)
\* _scale(rhythms, diff, revert)
Scale(rhythm, diff, revert) ==
    IF revert THEN FDiv(rhythm, diff) ELSE FMul(rhythm, diff)

\* A Python number: [v |-> value in grid units, ty |-> "int" or "float"]
IntNum(n) == [v |-> Sec(n), ty |-> "int"]
FloatNum(n) == [v |-> Sec(n), ty |-> "float"]

\* scale_to_tempo(tempo, rhythms, revert) on a single number; tempo in BPM.
\* Anything that is neither a float nor a list raises TypeError.
ScaleToTempoOk(x) == x.ty = "float"

ScaleToTempo(tempo, x, revert) ==
    LET diff == FDiv(Sec(60), Sec(tempo))
    IN  Round3(Scale(x.v, diff, revert))

(***************************************************************************)
(* Reference data (core/constants.py).                                     *)
(***************************************************************************)
BEATS == {1, 2, 4, 8, 16, 32, 64}

INSTRUMENTS == {"Acoustic Grand Piano", "Violin", "Viola", "Cello", "Contrabass"}

(***************************************************************************)
(* core/analyze.py                                                         *)
(***************************************************************************)
\* x in BEATS: Python compares numbers by value, 4.0 == 4
valid_beat_duration(meter) == \E b \in BEATS : meter[2].v = Sec(b)

is_valid(meter) == meter[1] > 0 /\ valid_beat_duration(meter)

(***************************************************************************)
(* containers/melody.py                                                    *)
(***************************************************************************)
Melody(tempo, instrument, notes, rhythms, dynamics) ==
    [tempo |-> tempo, instrument |-> instrument,
     notes |-> notes, rhythms |-> rhythms, dynamics |-> dynamics]

\* Melody(): tempo 0.0, instrument "None", nothing in it
EmptyMelody == Melody(0, "None", <<>>, <<>>, <<>>)

is_empty(m) == Len(m.notes) = 0 /\ Len(m.rhythms) = 0 /\ Len(m.dynamics) = 0

\* Melody.duration()
MelodyDuration(m) == FSum(m.rhythms)

(***************************************************************************)
(* containers/bar.py                                                       *)
(***************************************************************************)
DefaultMeter == <<4, IntNum(4)>>
DefaultInstrument == "Acoustic Grand Piano"

\* Optional arguments: <<>> is None, <<x>> is the value x
None == <<>>
Some(x) == <<x>>

CtorMeter(meterArg) == IF meterArg = None THEN DefaultMeter ELSE meterArg[1]
CtorTempo(tempoArg) == IF tempoArg = None THEN 60 ELSE tempoArg[1]

\* Bar.__init__: the exception it raises, "none" when it returns
BarInitError(meterArg, tempoArg, instrumentArg) ==
    IF meterArg # None /\ ~is_valid(meterArg[1]) THEN "TypeError"
    ELSE IF tempoArg # None /\ ~(40 < tempoArg[1] /\ tempoArg[1] < 240) THEN "TypeError"
    ELSE IF ~ScaleToTempoOk(CtorMeter(meterArg)[2]) THEN "TypeError"
    ELSE IF instrumentArg # None /\ instrumentArg[1] \notin INSTRUMENTS THEN "TypeError"
    ELSE "none"

\* self.length = self.meter[0] * scale_to_tempo(tempo=self.tempo, rhythms=self.meter[1])
BarLength(meter, tempo) ==
    FMul(FromInt(meter[1]), ScaleToTempo(tempo, meter[2], FALSE))

\* Bar.__init__: the object it builds
BarInit(meterArg, tempoArg, instrumentArg) ==
    [meter |-> CtorMeter(meterArg),
     tempo |-> CtorTempo(tempoArg),
     length |-> BarLength(CtorMeter(meterArg), CtorTempo(tempoArg)),
     instrument |-> IF instrumentArg = None THEN DefaultInstrument ELSE instrumentArg[1],
     current_beat |-> 0,
     full |-> FALSE,
     Notes |-> <<>>, Rhythms |-> <<>>, Dynamics |-> <<>>]

\* Bar.space_left()
space_left(b) == FSub(b.length, b.current_beat)

\* the assert of Bar.duration(): the summed rhythms do not exceed the length
BarDurationOk(b) == Len(b.Rhythms) = 0 \/ FSum(b.Rhythms) <= b.length

\* Bar.duration(): sum(self.bar["Rhythms"]), where the assert passes
BarDuration(b) == IF Len(b.Rhythms) = 0 THEN 0 ELSE FSum(b.Rhythms)

\* a clear() that also resets the full flag
BarClearResetsFull(b) ==
    [b EXCEPT !.meter = <<>>, !.tempo = 0, !.length = 0, !.instrument = "",
              !.current_beat = 0, !.full = FALSE,
              !.Notes = <<>>, !.Rhythms = <<>>, !.Dynamics = <<>>]

\* Bar.clear()
BarClear(b) ==
    [b EXCEPT !.meter = <<>>, !.tempo = 0, !.length = 0, !.instrument = "",
              !.current_beat = 0,
              !.Notes = <<>>, !.Rhythms = <<>>, !.Dynamics = <<>>]

\* a set_meter that recomputes the length from the new meter
BarSetMeterRecomputes(b, meter) ==
    [b EXCEPT !.meter = <<meter[1], meter[2]>>,
              !.length = IF b.tempo = 0 THEN @
                         ELSE BarLength(<<meter[1], meter[2]>>, b.tempo)]

\* Bar.set_meter(meter) on a valid tuple
BarSetMeter(b, meter) == [b EXCEPT !.meter = <<meter[1], meter[2]>>]

\* add_notes, current_beat < length: pop the triple and commit it verbatim
CommitWhole(b, m, cb) ==
    <<[b EXCEPT !.current_beat = cb,
                !.Notes = Append(@, m.notes[1]),
                !.Rhythms = Append(@, m.rhythms[1]),
                !.Dynamics = Append(@, m.dynamics[1])],
      [m EXCEPT !.notes = Tail(@),
                !.rhythms = Tail(@),
                !.dynamics = Tail(@)]>>

\* a split that commits the whole rhythm
CommitSplitNoTrim(b, m, cb) ==
    LET diff == FSub(cb, b.length)
    IN  <<[b EXCEPT !.current_beat = cb,
                    !.Notes = Append(@, m.notes[1]),
                    !.Rhythms = Append(@, m.rhythms[1]),
                    !.Dynamics = Append(@, m.dynamics[1]),
                    !.full = TRUE],
          [m EXCEPT !.rhythms[1] = diff]>>

\* a split that leaves the whole rhythm in the melody
CommitSplitKeepsRhythm(b, m, cb) ==
    LET diff == FSub(cb, b.length)
    IN  <<[b EXCEPT !.current_beat = cb,
                    !.Notes = Append(@, m.notes[1]),
                    !.Rhythms = Append(@, FSub(m.rhythms[1], diff)),
                    !.Dynamics = Append(@, m.dynamics[1]),
                    !.full = TRUE],
          m>>

\* a split that carries the overflow over to the next note's dynamic
CommitSplitNextDynamic(b, m, cb) ==
    LET diff == FSub(cb, b.length)
    IN  <<[b EXCEPT !.current_beat = cb,
                    !.Notes = Append(@, m.notes[1]),
                    !.Rhythms = Append(@, FSub(m.rhythms[1], diff)),
                    !.Dynamics = Append(@, m.dynamics[1]),
                    !.full = TRUE],
          [m EXCEPT !.rhythms[1] = diff,
                    !.dynamics[1] = IF Len(m.dynamics) > 1 THEN m.dynamics[2] ELSE @]>>

\* add_notes, current_beat >= length: commit the triple shortened by the
\* overflow, leave the triple in the melody with the overflow as its rhythm
CommitSplit(b, m, cb) ==
    LET diff == FSub(cb, b.length)
    IN  <<[b EXCEPT !.current_beat = cb,
                    !.Notes = Append(@, m.notes[1]),
                    !.Rhythms = Append(@, FSub(m.rhythms[1], diff)),
                    !.Dynamics = Append(@, m.dynamics[1]),
                    !.full = TRUE],
          [m EXCEPT !.rhythms[1] = diff]>>

\* the while loop of Bar.add_notes; the result is <<bar, melody>>.  A pass
\* works on the bar and the melody the pass before it left.
RECURSIVE AddNotesLoop(_, _)
AddNotesLoop(b, m) ==
    IF ~is_empty(m) /\ ~b.full
    THEN IF Len(m.rhythms) = 0 THEN <<b, m>>
         ELSE LET cb == FAdd(b.current_beat, m.rhythms[1])
                  r == IF cb < b.length THEN CommitWhole(b, m, cb)
                       ELSE CommitSplit(b, m, cb)
              IN  Let(r, LAMBDA pass : AddNotesLoop(pass[1], pass[2]))
    ELSE <<b, m>>

\* Bar.add_notes(mel): adopt the melody's tempo and instrument, then fill
BarAddNotes(b, m) ==
    AddNotesLoop([b EXCEPT !.tempo = m.tempo, !.instrument = m.instrument], m)

(***************************************************************************)
(* The callers' inputs.                                                    *)
(***************************************************************************)
MeterArgs ==
    {None,
     Some(<<4, IntNum(4)>>), Some(<<1, FloatNum(4)>>), Some(<<2, FloatNum(4)>>),
     Some(<<0, FloatNum(4)>>), Some(<<1, FloatNum(3)>>)}

\* the meters a caller hands to set_meter
SetMeterArgs == {<<4, IntNum(4)>>, <<0, FloatNum(4)>>}

TempoArgs == {None, Some(60), Some(120), Some(240)}

InstrumentArgs == {None, Some("Kazoo")}

\* rhythms a caller puts in a melody: 1.0, 1.5 and 7.5 seconds (a split leaves
\* others, 0 among them, in the remainder that goes to the next bar)
RhythmVals == {Half(2), Half(3), Half(15)}

MelodyTempos == {120}

\* notes and dynamics are labelled by position, so that a triple can be followed
NoteLabels == <<"A", "B", "C", "D", "E", "F">>
DynamicLabels == <<64, 0, 127, 100, 1, 90>>

RECURSIVE SeqsUpTo(_, _)
SeqsUpTo(S, n) ==
    IF n = 0 THEN {<<>>}
    ELSE LET shorter == SeqsUpTo(S, n - 1)
         IN  shorter \cup {Append(s, x) : s \in {t \in shorter : Len(t) = n - 1}, x \in S}

\* the rhythm sequences a caller builds
MelodyRhythms == SeqsUpTo(RhythmVals, MaxLen)

(***************************************************************************)
(* Operations on a bar.                                                    *)
(***************************************************************************)
NoBar == BarClear(BarInit(Some(<<1, FloatNum(4)>>), None, None))

BarInitState ==
    /\ hasBar = FALSE
    /\ bar = NoBar
    /\ mel = EmptyMelody
    /\ err = "none"
    /\ last = <<"start", <<>>>>

\* b = Bar(meter, tempo, instrument).  A rejected call changes nothing but err;
\* the model explores rejected calls before the first bar exists.
NewBar(meterArg, tempoArg, instrumentArg) ==
    LET e == BarInitError(meterArg, tempoArg, instrumentArg)
    IN  /\ e = "none" \/ ~hasBar
        /\ err' = e
        /\ last' = <<"Bar", <<meterArg, tempoArg, instrumentArg>>>>
        /\ IF e = "none"
           THEN /\ bar' = BarInit(meterArg, tempoArg, instrumentArg)
                /\ hasBar' = TRUE
           ELSE UNCHANGED <<bar, hasBar>>
        /\ UNCHANGED <<mel, renderVars, callVars>>

\* the caller builds a melody of equal-length sequences, once the one it holds
\* is used up; MaxLen bounds the notes in the bar and the melody together
NewMelody(tempo, rhythms) ==
    /\ is_empty(mel)
    /\ Len(rhythms) + (IF hasBar THEN Len(bar.Notes) ELSE 0) <= MaxLen
    /\ mel' = Melody(tempo, "Violin",
                     SubSeq(NoteLabels, 1, Len(rhythms)),
                     rhythms,
                     SubSeq(DynamicLabels, 1, Len(rhythms)))
    /\ err' = "none"
    /\ last' = <<"Melody", <<>>>>
    /\ UNCHANGED <<bar, hasBar, renderVars, callVars>>

\* mel = b.add_notes(mel)
AddNotes ==
    /\ hasBar
    /\ LET r == BarAddNotes(bar, mel)
       IN  /\ bar' = r[1]
           /\ mel' = r[2]
    /\ err' = "none"
    /\ last' = <<"add_notes", <<>>>>
    /\ UNCHANGED <<hasBar, renderVars, callVars>>

\* b.clear()
Clear ==
    /\ hasBar
    /\ bar' = BarClear(bar)
    /\ err' = "none"
    /\ last' = <<"clear", <<>>>>
    /\ UNCHANGED <<hasBar, mel, renderVars, callVars>>

\* b.set_meter(meter); isTuple is isinstance(meter, tuple).  The model explores
\* it between melodies only.
SetMeter(isTuple, meter) ==
    /\ hasBar
    /\ is_empty(mel)
    /\ last' = <<"set_meter", <<>>>>
    /\ IF ~isTuple
       THEN /\ err' = "TypeError"
            /\ UNCHANGED bar
       ELSE IF is_valid(meter)
       THEN /\ bar' = BarSetMeter(bar, meter)
            /\ err' = "none"
       ELSE /\ err' = "ValueError"
            /\ UNCHANGED bar
    /\ UNCHANGED <<hasBar, mel, renderVars, callVars>>

RenderIdle ==
    /\ rin = <<"none", <<>>, 0>>
    /\ rout = [events |-> <<>>, cursor |-> 0, err |-> "none"]

\* no generation or transform call made
CallIdle ==
    /\ fin = <<"none", <<>>>>
    /\ fout = [err |-> "none"]

Init == BarInitState /\ RenderIdle /\ CallIdle

Next ==
    \/ \E m \in MeterArgs, t \in TempoArgs, i \in InstrumentArgs : NewBar(m, t, i)
    \/ \E t \in MelodyTempos, rs \in MelodyRhythms : NewMelody(t, rs)
    \/ AddNotes
    \/ Clear
    \/ \E k \in BOOLEAN, m \in SetMeterArgs : SetMeter(k, m)

Spec == Init /\ [][Next]_vars

(***************************************************************************)
(* The timeline renderer (utils/midi.py).                                  *)
(***************************************************************************)
\* longest melody or chord handed to the renderer
RenderLen == 3

\* the chromatic reference table: the 88 keys A0 .. C8, a note being
\* <<pitch-class name, octave>>
PitchClassNames == <<"C", "C#", "D", "Eb", "E", "F", "F#", "G", "Ab", "A", "Bb", "B">>

NOTES == [i \in 1..88 |-> <<PitchClassNames[((i + 8) % 12) + 1], (i + 8) \div 12>>]

MIN_MIDI_NOTE == 21

\* a Chord: several notes, one rhythm, one dynamic
Chord(tempo, instrument, notes, rhythm, dynamic) ==
    [tempo |-> tempo, instrument |-> instrument,
     notes |-> notes, rhythm |-> rhythm, dynamic |-> dynamic]

\* Note(velocity, pitch, start, end)
Note(velocity, pitch, start, end) ==
    [velocity |-> velocity, pitch |-> pitch, start |-> start, end |-> end]

\* NOTES.index(note) succeeds
InNotes(note) == \E i \in 1..Len(NOTES) : NOTES[i] = note

\* note_name_to_MIDI_num(note), for a note of the table
note_name_to_MIDI_num(note) ==
    (CHOOSE i \in 1..Len(NOTES) : NOTES[i] = note) - 1 + MIN_MIDI_NOTE

Min(a, b) == IF a < b THEN a ELSE b

\* zip(melody.notes, melody.rhythms, melody.dynamics) stops at the shortest
ZipLen(m) == Min(Len(m.notes), Min(Len(m.rhythms), Len(m.dynamics)))

\* the events of triples i .. ZipLen(m) with the cursor at t, overlapping:
\* the cursor stays where it was
RECURSIVE MelodyEventsOverlap(_, _, _)
MelodyEventsOverlap(m, i, t) ==
    IF i > ZipLen(m) THEN [events |-> <<>>, cursor |-> t]
    ELSE LET end_time == FAdd(t, m.rhythms[i])
             rest == MelodyEventsOverlap(m, i + 1, t)
         IN  [events |-> <<Note(m.dynamics[i], note_name_to_MIDI_num(m.notes[i]),
                                t, end_time)>> \o rest.events,
              cursor |-> rest.cursor]

\* the loop of melody_to_notes from triple i on, with current_time = t
RECURSIVE MelodyEvents(_, _, _)
MelodyEvents(m, i, t) ==
    IF i > ZipLen(m) THEN [events |-> <<>>, cursor |-> t]
    ELSE LET end_time == FAdd(t, m.rhythms[i])
             rest == MelodyEvents(m, i + 1, end_time)
         IN  [events |-> <<Note(m.dynamics[i], note_name_to_MIDI_num(m.notes[i]),
                                t, end_time)>> \o rest.events,
              cursor |-> rest.cursor]

\* a melody_to_notes that leaves out the notes NOTES does not hold
melody_to_notes_skipping(m, start_time) ==
    LET keep == {i \in 1..ZipLen(m) : InNotes(m.notes[i])}
        pick(xs) == [k \in 1..Cardinality(keep) |->
                       xs[CHOOSE i \in keep : Cardinality({j \in keep : j <= i}) = k]]
        r == MelodyEvents([notes |-> pick(m.notes), rhythms |-> pick(m.rhythms),
                           dynamics |-> pick(m.dynamics)], 1, start_time)
    IN  [events |-> r.events, cursor |-> r.cursor, err |-> "none"]

\* melody_to_notes(melody, start_time): a note that NOTES does not hold raises
\* ValueError and nothing is returned
melody_to_notes(m, start_time) ==
    IF \E i \in 1..ZipLen(m) : ~InNotes(m.notes[i])
    THEN [events |-> <<>>, cursor |-> 0, err |-> "ValueError"]
    ELSE LET r == MelodyEvents(m, 1, start_time)
         IN  [events |-> r.events, cursor |-> r.cursor, err |-> "none"]

\* a chord rendered like a melody: the cursor advances once per note
chord_to_notes_per_note(c, start_time) ==
    IF \E i \in 1..Len(c.notes) : ~InNotes(c.notes[i])
    THEN [events |-> <<>>, cursor |-> 0, err |-> "ValueError"]
    ELSE LET r == MelodyEvents(
                    [notes |-> c.notes,
                     rhythms |-> [i \in 1..Len(c.notes) |-> c.rhythm],
                     dynamics |-> [i \in 1..Len(c.notes) |-> c.dynamic]],
                    1, start_time)
         IN  [events |-> r.events, cursor |-> r.cursor, err |-> "none"]

\* chord_to_notes(chord, start_time)
chord_to_notes(c, start_time) ==
    IF \E i \in 1..Len(c.notes) : ~InNotes(c.notes[i])
    THEN [events |-> <<>>, cursor |-> 0, err |-> "ValueError"]
    ELSE LET end_time == FAdd(start_time, c.rhythm)
         IN  [events |-> [i \in 1..Len(c.notes) |->
                            Note(c.dynamic, note_name_to_MIDI_num(c.notes[i]),
                                 start_time, end_time)],
              cursor |-> end_time,
              err |-> "none"]

\* a call that raised e: nothing is returned
Failed(e) == [events |-> <<>>, cursor |-> 0, err |-> e]

\* normalize_str(name): the alphanumeric characters of name, lower-cased,
\* for the instrument names in use
normalize_str(name) ==
    CASE name = "Acoustic Grand Piano" -> "acousticgrandpiano"
      [] name = "Violin" -> "violin"
      [] name = "Viola" -> "viola"
      [] name = "Cello" -> "cello"
      [] name = "Contrabass" -> "contrabass"
      [] name = "None" -> "none"
      [] OTHER -> name

\* instrument_to_program / create_instrument succeed: inst_list.index finds
\* the normalized name
CanCreateInstrument(name) ==
    \E n \in INSTRUMENTS : normalize_str(n) = normalize_str(name)

(***************************************************************************)
(* core/modify.py: the transforms of dynamics and durations.               *)
(***************************************************************************)
\* change_dynamics(dynamics, diff) on a list
change_dynamics(dynamics, diff) ==
    [i \in 1..Len(dynamics) |->
        IF dynamics[i] <= 123 THEN dynamics[i] + diff ELSE dynamics[i]]

\* a change_durations that applies the values it has, up to the shorter list
change_durations_partial(rhythms, val) ==
    IF val[1] = "float"
    THEN [out |-> [i \in 1..Len(rhythms) |-> FAdd(rhythms[i], val[2])],
          err |-> "none"]
    ELSE IF val[1] = "list"
    THEN [out |-> [i \in 1..Len(rhythms) |->
                     IF i <= Len(val[2]) THEN FAdd(rhythms[i], val[2][i])
                     ELSE rhythms[i]],
          err |-> "none"]
    ELSE [out |-> <<>>, err |-> "TypeError"]

\* change_durations(rhythms, val), val being <<"float", v>>, <<"list", vs>>
\* or of another type; out is the list returned (<<>> when it raises)
change_durations(rhythms, val) ==
    IF val[1] = "float"
    THEN [out |-> [i \in 1..Len(rhythms) |-> FAdd(rhythms[i], val[2])],
          err |-> "none"]
    ELSE IF val[1] = "list"
    THEN IF Len(val[2]) # Len(rhythms)
         THEN [out |-> <<>>, err |-> "ValueError"]
         ELSE [out |-> [i \in 1..Len(rhythms) |-> FAdd(rhythms[i], val[2][i])],
               err |-> "none"]
    ELSE [out |-> <<>>, err |-> "TypeError"]

(***************************************************************************)
(* utils/midi.py: parts and export.                                        *)
(***************************************************************************)
\* the loop of part_to_instrument over a list part, from item i on with
\* current_time = t; an item is <<"melody", m>>, <<"chord", c>> or of
\* another type
RECURSIVE ListEvents(_, _, _)
ListEvents(items, i, t) ==
    IF i > Len(items) THEN [events |-> <<>>, cursor |-> t, err |-> "none"]
    ELSE LET item == items[i]
             r == IF item[1] = "melody" THEN melody_to_notes(item[2], t)
                  ELSE IF item[1] = "chord" THEN chord_to_notes(item[2], t)
                  ELSE Failed("TypeError")
         IN  IF r.err # "none" THEN r
             ELSE LET rest == ListEvents(items, i + 1, r.cursor)
                  IN  IF rest.err # "none" THEN rest
                      ELSE [events |-> r.events \o rest.events,
                            cursor |-> rest.cursor, err |-> "none"]

\* part_to_instrument(part, start_time): the notes of the Instrument
\* returned; a part is <<"melody", m>>, <<"chord", c>>, <<"list", items>> or
\* of another type
part_to_instrument(part, start_time) ==
    IF part[1] = "melody"
    THEN IF ~CanCreateInstrument(part[2].instrument) THEN Failed("ValueError")
         ELSE melody_to_notes(part[2], start_time)
    ELSE IF part[1] = "chord"
    THEN IF ~CanCreateInstrument(part[2].instrument) THEN Failed("ValueError")
         ELSE chord_to_notes(part[2], start_time)
    ELSE IF part[1] = "list"
    THEN IF part[2] = <<>> THEN Failed("ValueError")
         ELSE IF part[2][1][1] \notin {"melody", "chord"} THEN Failed("AttributeError")
         ELSE IF ~CanCreateInstrument(part[2][1][2].instrument) THEN Failed("ValueError")
         ELSE ListEvents(part[2], 1, start_time)
    ELSE Failed("TypeError")

\* an export that leaves out the parts that fail to render
RECURSIVE ExportTracksSkipping(_, _)
ExportTracksSkipping(parts, i) ==
    IF i > Len(parts) THEN [tracks |-> <<>>, err |-> "none"]
    ELSE LET r == part_to_instrument(parts[i], 0)
             rest == ExportTracksSkipping(parts, i + 1)
         IN  IF r.err # "none" THEN rest
             ELSE [tracks |-> <<r.events>> \o rest.tracks, err |-> "none"]

\* the rendering loop of export_midi from part i on: the tracks appended to
\* the writer, or the error that ends the export
RECURSIVE ExportTracks(_, _)
ExportTracks(parts, i) ==
    IF i > Len(parts) THEN [tracks |-> <<>>, err |-> "none"]
    ELSE LET r == part_to_instrument(parts[i], 0)
         IN  IF r.err \in {"TypeError", "ValueError"}
             THEN [tracks |-> <<>>, err |-> "ValueError"]
             ELSE IF r.err # "none" THEN [tracks |-> <<>>, err |-> r.err]
             ELSE LET rest == ExportTracks(parts, i + 1)
                  IN  IF rest.err # "none" THEN rest
                      ELSE [tracks |-> <<r.events>> \o rest.tracks, err |-> "none"]

\* export_midi(comp): written is whether midi_writer.write was called,
\* events the tracks handed to it; comp.parts in insertion order
export_midi(parts) ==
    IF Len(parts) = 0
    THEN [events |-> <<>>, cursor |-> 0, err |-> "ValueError", written |-> FALSE]
    ELSE LET r == ExportTracks(parts, 1)
         IN  IF r.err # "none"
             THEN [events |-> <<>>, cursor |-> 0, err |-> r.err, written |-> FALSE]
             ELSE [events |-> r.tracks, cursor |-> 0, err |-> "none",
                   written |-> TRUE]

\* the notes a caller writes: middle C, the lowest key, the highest key and
\* a name the table does not hold
RenderNotes == {<<"C", 4>>, <<"A", 0>>, <<"C", 8>>, <<"C", 9>>}

\* start times: 0, 0.5 and 7.5 seconds
StartTimes == {Half(0), Half(1), Half(15)}

RenderNoteSeqs == SeqsUpTo(RenderNotes, RenderLen)

RenderChordDynamics == {0, 100}

RenderRhythmSeqs == SeqsUpTo(RhythmVals, RenderLen)

\* the calls made on the renderer: <<kind, part, start_time>>
MelodyCalls ==
    {<<"melody", Melody(120, "Violin", ns, rs, SubSeq(DynamicLabels, 1, Len(ns))), t>> :
        ns \in RenderNoteSeqs,
        rs \in RenderRhythmSeqs,
        t \in StartTimes}

ChordCalls ==
    {<<"chord", Chord(120, "Violin", ns, r, d), t>> :
        ns \in RenderNoteSeqs, r \in RhythmVals,
        d \in RenderChordDynamics, t \in StartTimes}

\* longest list part and largest number of parts of a composition
PartLen == 2
CompLen == 2

\* the (notes, rhythms, dynamics) a generated melody starts from; the last
\* one has a note the table does not hold
BaseTriples ==
    { <<(<<<<"C", 4>>>>), <<Half(3)>>, <<120>>>>,
      <<(<<<<"A", 0>>, <<"C", 8>>>>), <<Half(2), Half(15)>>, <<64, 0>>>>,
      <<(<<<<"C", 9>>>>), <<Half(2)>>, <<64>>>> }

\* the amounts passed to change_durations (0.0 and -2.0 seconds) and to
\* change_dynamics
DurationChanges == {Sec(0), 0 - Sec(2)}
DynamicChanges == {0, 8, 0 - 4}

\* a melody after change_durations(rhythms, val) and
\* change_dynamics(dynamics, diff)
TransformedMelody(instrument, b, val, diff) ==
    Melody(120, instrument, b[1],
           change_durations(b[2], <<"float", val>>).out,
           change_dynamics(b[3], diff))

PartMelodies ==
    {TransformedMelody("Violin", b, v, d) :
        b \in BaseTriples, v \in DurationChanges, d \in DynamicChanges}
      \cup {TransformedMelody("None", <<(<<<<"C", 4>>>>), <<Half(3)>>, <<120>>>>, 0, 0)}

PartChords ==
    {Chord(120, "Cello", <<<<"C", 4>>, <<"A", 0>>>>, Half(3), 100),
     Chord(120, "Cello", <<<<"C", 4>>>>, Half(15), 0)}

\* the items of a list part: melodies, chords and an object that is neither
PartItems ==
    {<<"melody", m>> : m \in PartMelodies}
      \cup {<<"chord", c>> : c \in PartChords}
      \cup {<<"other", 0>>}

PartCalls ==
    {<<"part", <<"list", items>>, t>> :
        items \in SeqsUpTo(PartItems, PartLen), t \in {Half(0), Half(15)}}

\* the parts of the compositions exported
ExportParts ==
    LET b1 == <<(<<<<"C", 4>>>>), <<Half(3)>>, <<120>>>>
        b2 == <<(<<<<"A", 0>>, <<"C", 8>>>>), <<Half(2), Half(15)>>, <<64, 0>>>>
        b3 == <<(<<<<"C", 9>>>>), <<Half(2)>>, <<64>>>>
        c1 == Chord(120, "Cello", <<<<"C", 4>>, <<"A", 0>>>>, Half(3), 100)
    IN  { <<"melody", TransformedMelody("Violin", b1, 0, 0)>>,
          <<"melody", TransformedMelody("Violin", b1, 0, 8)>>,
          <<"melody", TransformedMelody("Violin", b2, 0 - Sec(2), 0 - 4)>>,
          <<"melody", TransformedMelody("Violin", b3, 0, 0)>>,
          <<"melody", TransformedMelody("None", b1, 0, 0)>>,
          <<"chord", c1>>,
          <<"list", <<(<<"chord", c1>>), (<<"melody", TransformedMelody("Violin", b2, 0, 0)>>)>>>>,
          <<"list", <<>>>>,
          <<"list", <<(<<"melody", TransformedMelody("Violin", b1, 0, 0)>>), (<<"other", 0>>)>>>>,
          <<"other", 0>> }

ExportCalls ==
    {<<"export", parts, 0>> : parts \in SeqsUpTo(ExportParts, CompLen)}

\* a call that has not returned yet
Pending == [events |-> <<>>, cursor |-> 0, err |-> "pending"]

\* notes, start = melody_to_notes(melody, start_time)
RenderMelody ==
    /\ rin[1] = "melody" /\ rout = Pending
    /\ rout' = melody_to_notes(rin[2], rin[3])
    /\ UNCHANGED <<rin, barVars, callVars>>

\* notes, start = chord_to_notes(chord, start_time)
RenderChord ==
    /\ rin[1] = "chord" /\ rout = Pending
    /\ rout' = chord_to_notes(rin[2], rin[3])
    /\ UNCHANGED <<rin, barVars, callVars>>

\* instrument = part_to_instrument(part, start_time)
RenderPart ==
    /\ rin[1] = "part" /\ rout = Pending
    /\ rout' = part_to_instrument(rin[2], rin[3])
    /\ UNCHANGED <<rin, barVars, callVars>>

\* export_midi(comp)
ExportMidi ==
    /\ rin[1] = "export" /\ rout = Pending
    /\ rout' = export_midi(rin[2])
    /\ UNCHANGED <<rin, barVars, callVars>>

RenderInit ==
    /\ BarInitState /\ CallIdle
    /\ rin \in {c \in MelodyCalls : Len(c[2].notes) = Len(c[2].rhythms)}
                 \cup ChordCalls \cup PartCalls \cup ExportCalls
    /\ rout = Pending

RenderNext == RenderMelody \/ RenderChord \/ RenderPart \/ ExportMidi

RenderSpec == RenderInit /\ [][RenderNext]_vars

(***************************************************************************)
(* core/generate.py: the random source and the generation of rhythms and   *)
(* dynamics.                                                               *)
(***************************************************************************)
\* longest sequence generated with every outcome of the draws, and the
\* length of a long run
MaxTotal == 2
LongTotal == 15

\* a random generator: the stream its seed fixes and the position in it
Rng(tape) == [tape |-> tape, pos |-> 0]

\* the next raw value of the stream
Raw(rng) == rng.tape[(rng.pos % Len(rng.tape)) + 1]

\* randint(a, b) on a generator: <<value, generator after the draw>>
randint(rng, a, b) ==
    <<a + (Raw(rng) % (b - a + 1)), [rng EXCEPT !.pos = @ + 1]>>

\* choice(seq) on a generator
choice(rng, seq) ==
    <<seq[(Raw(rng) % Len(seq)) + 1], [rng EXCEPT !.pos = @ + 1]>>

\* the palettes of core.constants
RHYTHMS == <<Sec(1), Half(1)>>
DYNAMICS == <<40, 100>>
REST == 0
BASE_TEMPO == 60

\* the bound scale_limit draws its limit under: floor(total * factor)
ScaleBound(total) ==
    IF total <= 100 THEN total \div 5
    ELSE IF total <= 300 THEN (total * 3) \div 40
    ELSE IF total <= 500 THEN total \div 20
    ELSE IF total <= 700 THEN (total * 7) \div 200
    ELSE IF total <= 1000 THEN total \div 50
    ELSE total \div 1000

\* scale_limit(given_total_items), total >= 1: <<rep_limit, process-wide
\* generator after the draw>>; the draw is random.randint of the module
scale_limit(total, grng) ==
    IF total <= 10 THEN <<0, randint(grng, 1, 3)[2]>>
    ELSE randint(grng, 1, ScaleBound(total))

\* a scale_limit that draws from the instance's generator gets the same
\* limit whatever the process-wide generator holds
get_repetition_limit_fixed(total, grng) == <<2, grng>>

\* Generate._get_repetition_limit(total)
get_repetition_limit(total, grng) ==
    LET l == scale_limit(total, grng)
    IN  <<IF l[1] > 2 THEN l[1] ELSE 2, l[2]>>

\* k copies of x
Copies(x, k) == [i \in 1..k |-> x]

\* a repetition run that is not cut off at total
RunOvershoots(xs, x, reps, total) == xs \o Copies(x, reps)

\* the for loop of a repetition run: append x up to reps times, stop when
\* the list holds total elements
Run(xs, x, reps, total) == xs \o Copies(x, Min(reps, total - Len(xs)))

\* the while loop of generate_rhythms: [out, rng, grng]
RECURSIVE RhythmsLoop(_, _, _, _, _)
RhythmsLoop(total, source, rhythms, rng, grng) ==
    IF ~(Len(rhythms) < total) THEN [out |-> rhythms, rng |-> rng, grng |-> grng]
    ELSE LET c == choice(rng, source)
             coin == randint(c[2], 1, 2)
         IN  IF coin[1] = 1
             THEN LET limit == get_repetition_limit(total, grng)
                      reps == randint(coin[2], 1, limit[1])
                  IN  RhythmsLoop(total, source, Run(rhythms, c[1], reps[1], total),
                                  reps[2], limit[2])
             ELSE RhythmsLoop(total, source, Append(rhythms, c[1]), coin[2], grng)

\* scale_to_tempo(tempo, rhythms) on a list
ScaleToTempoList(tempo, rhythms) ==
    LET diff == FDiv(Sec(60), Sec(tempo))
    IN  [i \in 1..Len(rhythms) |-> Round3(Scale(rhythms[i], diff, FALSE))]

\* Generate.generate_rhythms(total, tempo, source_rhythms), total given;
\* tempo and source_rhythms are None or Some(x)
generate_rhythms(total, tempo, source_rhythms, rng, grng) ==
    LET source == IF source_rhythms # None /\ source_rhythms[1] # <<>>
                  THEN source_rhythms[1] ELSE RHYTHMS
        r == RhythmsLoop(total, source, <<>>, rng, grng)
    IN  IF tempo # None /\ tempo[1] # BASE_TEMPO
        THEN [r EXCEPT !.out = ScaleToTempoList(tempo[1], r.out)]
        ELSE r

\* Generate.generate_dynamic(allow_rests): <<dynamic, rng>>
generate_dynamic(allow_rests, rng) ==
    IF allow_rests
    THEN LET d == randint(rng, 0, 1)
         IN  IF d[1] = 1 THEN <<REST, d[2]>> ELSE choice(d[2], DYNAMICS)
    ELSE choice(rng, DYNAMICS)

\* the while loop of generate_dynamics: [out, rng, grng]
RECURSIVE DynamicsLoop(_, _, _, _, _)
DynamicsLoop(total, allow_rests, dynamics, rng, grng) ==
    IF ~(Len(dynamics) < total) THEN [out |-> dynamics, rng |-> rng, grng |-> grng]
    ELSE LET d == generate_dynamic(allow_rests, rng)
             coin == randint(d[2], 1, 2)
         IN  IF coin[1] = 1
             THEN LET limit == get_repetition_limit(total, grng)
                      reps == randint(coin[2], 1, IF d[1] # REST THEN limit[1] ELSE 2)
                  IN  DynamicsLoop(total, allow_rests, Run(dynamics, d[1], reps[1], total),
                                   reps[2], limit[2])
             ELSE DynamicsLoop(total, allow_rests, Append(dynamics, d[1]), coin[2], grng)

\* Generate.generate_dynamics(total, allow_rests), total given
generate_dynamics(total, allow_rests, rng, grng) ==
    DynamicsLoop(total, allow_rests, <<>>, rng, grng)

\* the seeds: every stream that repeats eight binary draws (every outcome
\* of the draws of two elements), and the streams that repeat two draws out
\* of six values
SeedTapes ==
    [1..8 -> 0..1] \cup [1..2 -> 0..5]

\* what the process-wide generator holds when the first and when the second
\* instance runs
GlobalTapes == {<<(<<0>>), (<<0>>)>>, <<(<<0>>), (<<2>>)>>}

Totals == 0..MaxTotal \cup {LongTotal}

\* a palette passed as source_rhythms
SourceRhythms == <<Half(3), Half(2)>>

\* the calls: two instances Generate(seed) given the same call, each under
\* its own state of the process-wide generator
GenerateCalls ==
    {<<"generate_rhythms", [total |-> n, tempo |-> a[1], source |-> a[2],
                            seed |-> sd, global |-> g]>> :
        n \in Totals,
        a \in {<<None, None>>, <<Some(60), None>>, <<Some(120), Some(SourceRhythms)>>},
        sd \in SeedTapes, g \in GlobalTapes}
    \cup
    {<<"generate_dynamics", [total |-> n, allow_rests |-> r,
                             seed |-> sd, global |-> g]>> :
        n \in Totals, r \in BOOLEAN, sd \in SeedTapes, g \in GlobalTapes}

\* a call made, not returned
CallPending == [err |-> "pending"]

\* both instances run generate_rhythms(total, tempo, source_rhythms)
GenerateRhythms ==
    /\ fin[1] = "generate_rhythms" /\ fout = CallPending
    /\ LET a == fin[2]
       IN  fout' = [err |-> "none",
                    first |-> generate_rhythms(a.total, a.tempo, a.source,
                                               Rng(a.seed), Rng(a.global[1])),
                    second |-> generate_rhythms(a.total, a.tempo, a.source,
                                                Rng(a.seed), Rng(a.global[2]))]
    /\ UNCHANGED <<fin, barVars, renderVars>>

\* both instances run generate_dynamics(total, allow_rests)
GenerateDynamics ==
    /\ fin[1] = "generate_dynamics" /\ fout = CallPending
    /\ LET a == fin[2]
       IN  fout' = [err |-> "none",
                    first |-> generate_dynamics(a.total, a.allow_rests,
                                                Rng(a.seed), Rng(a.global[1])),
                    second |-> generate_dynamics(a.total, a.allow_rests,
                                                 Rng(a.seed), Rng(a.global[2]))]
    /\ UNCHANGED <<fin, barVars, renderVars>>

GenInit ==
    /\ BarInitState /\ RenderIdle
    /\ fin \in GenerateCalls
    /\ fout = CallPending

GenNext == GenerateRhythms \/ GenerateDynamics

GenSpec == GenInit /\ [][GenNext]_vars

(***************************************************************************)
(* Transforms as functions: scale_to_tempo on decimal durations            *)
(* (utils/tools.py), invert and transpose (core/modify.py).                *)
(***************************************************************************)
\* largest duration scaled, in thousandths of a second; longest list
\* transformed
MaxMilli == 12
MaxPcs == 2

\* round(a / b, 0) for integers a >= 0, b > 0: the nearest integer; on a
\* tie the float that stands for a / b lies on either side, so both
\* neighbours are possible
RoundOutcomes(a, b) ==
    LET q == a \div b
        r == a % b
    IN  IF 2 * r < b THEN {q}
        ELSE IF 2 * r > b THEN {q + 1}
        ELSE {q, q + 1}

\* scale_to_tempo(tempo, x, revert) on a float x of k thousandths: the
\* thousandths round(_scale(x, 60 / tempo, revert), 3) can return
scale_to_tempo(tempo, k, revert) ==
    IF revert THEN RoundOutcomes(k * tempo, 60)
    ELSE RoundOutcomes(k * 60, tempo)

\* the position of a note in NOTES (from 0)
NotesIndex(note) == (CHOOSE i \in 1..Len(NOTES) : NOTES[i] = note) - 1

\* NOTES[i] in Python: a negative i counts from the end of the list
PyIndexOk(i) == i >= 0 - Len(NOTES) /\ i < Len(NOTES)
PyIndex(i) == IF i < 0 THEN NOTES[Len(NOTES) + i + 1] ELSE NOTES[i + 1]

\* to_str(pcs, oct_eq=False): [NOTES[pc] for pc in pcs]
to_str(pcs) ==
    IF \E i \in 1..Len(pcs) : ~PyIndexOk(pcs[i])
    THEN [out |-> <<>>, err |-> "IndexError"]
    ELSE [out |-> [i \in 1..Len(pcs) |-> PyIndex(pcs[i])], err |-> "none"]

\* result_indices of invert: start on the first index, add the negated
\* intervals one after the other
RECURSIVE InvertedIndices(_)
InvertedIndices(indices) ==
    IF Len(indices) = 1 THEN indices
    ELSE LET n == Len(indices)
             front == InvertedIndices(SubSeq(indices, 1, n - 1))
         IN  Append(front, front[n - 1] + (0 - (indices[n] - indices[n - 1])))

\* invert(notes)
invert(notes) ==
    IF \E i \in 1..Len(notes) : ~InNotes(notes[i])
    THEN [out |-> <<>>, err |-> "ValueError"]
    ELSE IF notes = <<>> THEN [out |-> <<>>, err |-> "IndexError"]
    ELSE to_str(InvertedIndices([i \in 1..Len(notes) |-> NotesIndex(notes[i])]))

\* an oct_equiv that forgets the values below 0
oct_equiv_above_only(pitch) ==
    [p \in 1..Len(pitch) |-> IF pitch[p] > 11 THEN pitch[p] % 12 ELSE pitch[p]]

\* oct_equiv(pitch) on a list
oct_equiv(pitch) ==
    [p \in 1..Len(pitch) |->
        IF pitch[p] > 11 \/ pitch[p] < 0 THEN pitch[p] % 12 ELSE pitch[p]]

\* a transpose that adds as many distances as the shorter list has
transpose_partial(pcs, dist, oct_eq) ==
    LET added ==
          IF dist[1] = "int" THEN [i \in 1..Len(pcs) |-> pcs[i] + dist[2]]
          ELSE [i \in 1..Min(Len(pcs), Len(dist[2])) |-> pcs[i] + dist[2][i]]
    IN  IF dist[1] \notin {"int", "list"}
        THEN [out |-> <<>>, pcs |-> pcs, err |-> "TypeError"]
        ELSE [out |-> IF oct_eq THEN oct_equiv(added) ELSE added,
              pcs |-> pcs, err |-> "none"]

\* transpose(pcs, dist, oct_eq), dist being <<"int", d>>, <<"list", ds>> or
\* of another type: out is the list returned, pcs the caller's list after
\* the call
transpose(pcs, dist, oct_eq) ==
    IF dist[1] = "list" /\ Len(dist[2]) # Len(pcs)
    THEN [out |-> <<>>, pcs |-> pcs, err |-> "ValueError"]
    ELSE IF dist[1] \notin {"int", "list"}
    THEN [out |-> <<>>, pcs |-> pcs, err |-> "TypeError"]
    ELSE LET added ==
               IF dist[1] = "int" THEN [i \in 1..Len(pcs) |-> pcs[i] + dist[2]]
               ELSE [i \in 1..Len(pcs) |-> pcs[i] + dist[2][i]]
         IN  [out |-> IF oct_eq THEN oct_equiv(added) ELSE added,
              pcs |-> pcs, err |-> "none"]

\* the tempos and durations scaled
ScaleTempos == {30, 60, 90, 120, 200, 239, 240}
ScaleCalls ==
    {<<"scale_to_tempo", [tempo |-> t, x |-> k]>> : t \in ScaleTempos, k \in 0..MaxMilli}

\* the notes inverted: the ends of the table, notes inside it and a name it
\* does not hold
InvertNotes == {<<"A", 0>>, <<"C", 1>>, <<"C", 4>>, <<"B", 7>>, <<"C", 8>>, <<"C", 9>>}
InvertCalls ==
    {<<"invert", [notes |-> ns]>> : ns \in SeqsUpTo(InvertNotes, MaxPcs + 1)}

\* pitch classes and distances, inside and outside 0..11
PcValues == {0 - 13, 0 - 1, 0, 5, 11, 12, 25}
DistValues == {0 - 14, 0 - 1, 0, 7, 12}
Distances ==
    {<<"int", d>> : d \in DistValues}
      \cup {<<"list", ds>> : ds \in SeqsUpTo({0 - 1, 7}, MaxPcs + 1)}
      \cup {<<"str", 0>>}
TransposeCalls ==
    {<<"transpose", [pcs |-> pcs, dist |-> d, oct_eq |-> e]>> :
        pcs \in SeqsUpTo(PcValues, MaxPcs), d \in Distances, e \in BOOLEAN}

\* the values passed to change_durations
DurationValues ==
    {<<"float", Half(1)>>, <<"float", 0 - Sec(2)>>}
      \cup {<<"list", vs>> : vs \in SeqsUpTo({Half(1), 0 - Sec(2)}, MaxPcs + 1)}
      \cup {<<"int", 1>>}
ChangeDurationsCalls ==
    {<<"change_durations", [rhythms |-> rs, val |-> v]>> :
        rs \in SeqsUpTo(RhythmVals, MaxPcs), v \in DurationValues}

\* x1 = scale_to_tempo(tempo, x)
ScaleForward ==
    /\ fin[1] = "scale_to_tempo" /\ fout = CallPending
    /\ \E k \in scale_to_tempo(fin[2].tempo, fin[2].x, FALSE) :
          fout' = [err |-> "none", stage |-> "scaled", val |-> k]
    /\ UNCHANGED <<fin, barVars, renderVars>>

\* x2 = scale_to_tempo(tempo, x1, revert=True)
ScaleRevert ==
    /\ fin[1] = "scale_to_tempo" /\ fout # CallPending /\ fout.stage = "scaled"
    /\ \E k \in scale_to_tempo(fin[2].tempo, fout.val, TRUE) :
          fout' = [err |-> "none", stage |-> "reverted", val |-> k]
    /\ UNCHANGED <<fin, barVars, renderVars>>

\* invert(notes)
Invert ==
    /\ fin[1] = "invert" /\ fout = CallPending
    /\ fout' = invert(fin[2].notes)
    /\ UNCHANGED <<fin, barVars, renderVars>>

\* transpose(pcs, dist, oct_eq)
Transpose ==
    /\ fin[1] = "transpose" /\ fout = CallPending
    /\ fout' = transpose(fin[2].pcs, fin[2].dist, fin[2].oct_eq)
    /\ UNCHANGED <<fin, barVars, renderVars>>

\* change_durations(rhythms, val); the caller's list is not written
ChangeDurations ==
    /\ fin[1] = "change_durations" /\ fout = CallPending
    /\ LET r == change_durations(fin[2].rhythms, fin[2].val)
       IN  fout' = [out |-> r.out, err |-> r.err, rhythms |-> fin[2].rhythms]
    /\ UNCHANGED <<fin, barVars, renderVars>>

ToolInit ==
    /\ BarInitState /\ RenderIdle
    /\ fin \in ScaleCalls \cup InvertCalls \cup TransposeCalls \cup ChangeDurationsCalls
    /\ fout = CallPending

ToolNext ==
    ScaleForward \/ ScaleRevert \/ Invert \/ Transpose \/ ChangeDurations

ToolSpec == ToolInit /\ [][ToolNext]_vars

(***************************************************************************)
(* core/generate.py: the selection of scales and sets, note sampling and   *)
(* generate_melody.                                                        *)
(***************************************************************************)
\* the tables of core.constants: named scales and named pitch-class sets, in
\* the order of their keys, each <<name, pitch classes>>
SCALES ==
    <<(<<"Major", <<0, 2, 4, 5, 7, 9, 11>>>>),
      (<<"Minor Pentatonic", <<0, 3, 5, 7, 10>>>>)>>

SETS ==
    <<(<<"3-1", <<0, 1, 2>>>>),
      (<<"4-Z15", <<0, 1, 4, 6>>>>)>>

MIN_SCALE_SIZE == 5
MAX_SCALE_SIZE == 8
GENERATION_OCTAVE_START == 2
MIN_NOTES == 4
MAX_NOTES == 8
TEMPOS == <<60, 120>>

\* to_str(pcs, octave, oct_eq=True): oct_equiv reduces the caller's list in
\* place, then each pitch class is named; octave is None or Some(o)
to_str_oct_eq(pcs, octave) ==
    IF octave # None /\ ~(1 < octave[1] /\ octave[1] < 6)
    THEN [out |-> <<>>, pcs |-> oct_equiv(pcs), err |-> "ValueError"]
    ELSE [out |-> [i \in 1..Len(pcs) |->
                     IF octave = None THEN PitchClassNames[oct_equiv(pcs)[i] + 1]
                     ELSE <<PitchClassNames[oct_equiv(pcs)[i] + 1], octave[1]>>],
          pcs |-> oct_equiv(pcs),
          err |-> "none"]

\* the body shared by pick_scale and pick_set: choose an entry of the table,
\* transpose its pitch classes by randint(1, 11) without octave reduction when
\* asked to, and name the notes; the pitch classes returned are the table's
PickFromTable(table, transposeArg, octave, rng) ==
    Let(choice(rng, table), LAMBDA c :
    Let(IF transposeArg THEN randint(c[2], 1, 11) ELSE <<0, c[2]>>, LAMBDA d :
    Let(IF transposeArg THEN transpose(c[1][2], <<"int", d[1]>>, FALSE).out
        ELSE c[1][2], LAMBDA pcs_t :
        [name |-> c[1][1], pcs |-> c[1][2],
         notes |-> to_str_oct_eq(pcs_t, octave).out,
         dist |-> d[1], rng |-> d[2]])))

\* Generate.pick_scale(transpose, octave)
pick_scale(transposeArg, octave, rng) == PickFromTable(SCALES, transposeArg, octave, rng)

\* Generate.pick_set(transpose, octave)
pick_set(transposeArg, octave, rng) == PickFromTable(SETS, transposeArg, octave, rng)

\* whether x is an element of the list xs
InList(x, xs) == \E i \in 1..Len(xs) : xs[i] = x

\* the while loop of generate_scale: draw pitch classes until total distinct
\* ones are held; <<pcs, rng>>
RECURSIVE DistinctPcs(_, _, _)
DistinctPcs(total, pcs, rng) ==
    IF ~(Len(pcs) < total) THEN <<pcs, rng>>
    ELSE Let(randint(rng, 0, 11), LAMBDA n :
         Let(IF InList(n[1], pcs) THEN pcs ELSE Append(pcs, n[1]), LAMBDA held :
             DistinctPcs(total, held, n[2])))

\* pcs.sort()
RECURSIVE SortedPcs(_)
SortedPcs(xs) ==
    IF xs = <<>> THEN <<>>
    ELSE LET k == CHOOSE i \in 1..Len(xs) : \A j \in 1..Len(xs) : xs[i] <= xs[j]
         IN  <<xs[k]>> \o SortedPcs(SubSeq(xs, 1, k - 1) \o SubSeq(xs, k + 1, Len(xs)))

\* Generate.generate_scale(transpose, octave): drawn is the sorted scale
\* before the transposition, pcs the list returned, which to_str has reduced
\* in place
generate_scale(transposeArg, octave, rng) ==
    Let(randint(rng, MIN_SCALE_SIZE, MAX_SCALE_SIZE), LAMBDA total :
    Let(DistinctPcs(total[1], <<>>, total[2]), LAMBDA drawn :
    Let(SortedPcs(drawn[1]), LAMBDA sorted :
    Let(IF transposeArg THEN randint(drawn[2], 1, 11) ELSE <<0, drawn[2]>>, LAMBDA d :
    Let(IF transposeArg THEN transpose(sorted, <<"int", d[1]>>, FALSE).out
        ELSE sorted, LAMBDA pcs_t :
    Let(to_str_oct_eq(pcs_t, octave), LAMBDA s :
        [name |-> "invented", drawn |-> sorted, pcs |-> s.pcs, notes |-> s.out,
         dist |-> d[1], rng |-> d[2]]))))))

\* Generate.pick_root(transpose, octave): info is the description, as
\* <<kind, the root it names, the name of the scale or set or the pitch
\* classes of the invented scale>>; the note list is to_str of the pitch
\* classes the branch returned
pick_root(transposeArg, octave, rng) ==
    Let(randint(rng, 1, 3), LAMBDA choice_type :
    Let(IF choice_type[1] = 1 THEN pick_scale(transposeArg, None, choice_type[2])
        ELSE IF choice_type[1] = 2 THEN pick_set(transposeArg, None, choice_type[2])
        ELSE generate_scale(transposeArg, None, choice_type[2]), LAMBDA p :
    Let(to_str_oct_eq(p.pcs, octave), LAMBDA s :
        LET info == IF choice_type[1] = 1 THEN <<"scale", p.notes[1], p.name>>
                    ELSE IF choice_type[1] = 2 THEN <<"set", p.notes[1], p.name>>
                    ELSE <<"invented", p.notes[1], p.pcs>>
        IN  [scale |-> s.out, info |-> info, picked |-> p, rng |-> p.rng,
             err |-> s.err])))

\* the largest element of a non-empty list of integers
MaxOf(xs) == CHOOSE x \in {xs[i] : i \in 1..Len(xs)} : \A i \in 1..Len(xs) : xs[i] <= x

\* the for loop of Generate._build_source_scale from note k on: the notes of
\* the root at the octave, the octave going up at the end of the root and,
\* past octave 5, a new octave and a new root being drawn; [scale, rng]
RECURSIVE BuildSourceScale(_, _, _, _, _, _)
BuildSourceScale(root, gen_total, octave, n, scale, rng) ==
    IF ~(Len(scale) < gen_total) THEN [scale |-> scale, rng |-> rng]
    ELSE Let(Append(scale, <<root[n + 1], octave>>), LAMBDA next :
             IF n + 1 = Len(root)
             THEN IF octave + 1 > 5
                  THEN Let(randint(rng, GENERATION_OCTAVE_START, 3), LAMBDA o :
                       Let(pick_root(TRUE, None, o[2]), LAMBDA r :
                           BuildSourceScale(r.scale, gen_total, o[1], 0, next, r.rng)))
                  ELSE Let(octave + 1, LAMBDA up :
                           BuildSourceScale(root, gen_total, up, 0, next, rng))
             ELSE Let(n + 1, LAMBDA k :
                      BuildSourceScale(root, gen_total, octave, k, next, rng)))

\* total draws of choice(seq): [out, rng]
RECURSIVE Choices(_, _, _, _)
Choices(seq, total, out, rng) ==
    IF ~(Len(out) < total) THEN [out |-> out, rng |-> rng]
    ELSE Let(choice(rng, seq), LAMBDA c :
         Let(Append(out, c[1]), LAMBDA drawn :
             Choices(seq, total, drawn, c[2])))

\* scale[i] in Python: a negative i counts from the end
ListIndexOk(xs, i) == i >= 0 - Len(xs) /\ i < Len(xs)
ListAt(xs, i) == IF i < 0 THEN xs[Len(xs) + i + 1] ELSE xs[i + 1]

\* Generate.generate_notes(data, root=None, total): data and total are None
\* or Some(x); [notes, source_notes, rng, err]
generate_notes(data, total, rng) ==
    Let(randint(rng, GENERATION_OCTAVE_START, 3), LAMBDA octave :
    Let(pick_root(TRUE, None, octave[2]), LAMBDA r :
    Let(total # None /\ total[1] # 0, LAMBDA given :
        IF data # None /\ data[1] = <<>>
        THEN [notes |-> <<>>, source_notes |-> <<>>, rng |-> r.rng, err |-> "ValueError"]
        ELSE
    Let(IF data # None \/ given THEN <<0, r.rng>>
        ELSE randint(r.rng, MIN_NOTES - 1, MAX_NOTES - 1), LAMBDA count :
    Let(IF data # None THEN MaxOf(data[1]) + 1
        ELSE IF given THEN total[1] ELSE count[1], LAMBDA gen_total :
    Let(BuildSourceScale(r.scale, gen_total, octave[1], 0, <<>>, count[2]), LAMBDA built :
        IF data # None
        THEN IF \E i \in 1..Len(data[1]) : ~ListIndexOk(built.scale, data[1][i])
             THEN [notes |-> <<>>, source_notes |-> built.scale, rng |-> built.rng,
                   err |-> "IndexError"]
             ELSE [notes |-> [i \in 1..Len(data[1]) |-> ListAt(built.scale, data[1][i])],
                   source_notes |-> built.scale, rng |-> built.rng, err |-> "none"]
        ELSE
    Let(IF given THEN <<total[1], built.rng>>
        ELSE randint(built.rng, 3, Len(built.scale)), LAMBDA pick_total :
    Let(Choices(built.scale, pick_total[1], <<>>, pick_total[2]), LAMBDA picked :
        [notes |-> picked.out, source_notes |-> built.scale,
         rng |-> picked.rng, err |-> "none"]))))))))

\* scale_the_scale(data): an element above len(data) - 1 is reduced modulo
\* len(data) - 1; [out, err]
scale_the_scale(data) ==
    IF \E i \in 1..Len(data) : data[i] > Len(data) - 1 /\ Len(data) - 1 = 0
    THEN [out |-> data, err |-> "ZeroDivisionError"]
    ELSE [out |-> [i \in 1..Len(data) |->
                     IF data[i] > Len(data) - 1 THEN data[i] % (Len(data) - 1)
                     ELSE data[i]],
          err |-> "none"]

\* map_data(data, data_type) on a list of integers
map_data(data, data_type) ==
    IF data_type = "int" THEN scale_the_scale(data)
    ELSE [out |-> data, err |-> "ValueError"]

\* the notes of a list that inst_range holds
RECURSIVE FilterIn(_, _)
FilterIn(notes, inst_range) ==
    IF notes = <<>> THEN <<>>
    ELSE (IF InList(notes[1], inst_range) THEN <<notes[1]>> ELSE <<>>)
           \o FilterIn(Tail(notes), inst_range)

\* a melody that did not come back: the call raised e
NoMelody(e) ==
    [err |-> e, notes |-> <<>>, rhythms |-> <<>>, dynamics |-> <<>>,
     sampled |-> <<>>, tempo |-> 0]

\* a generate_melody that sizes rhythms and dynamics to the notes sampled,
\* before the filter
generate_melody_presized(a, rng, grng) ==
    Let(IF a.data_type # None /\ a.raw_data # None
        THEN map_data(a.raw_data[1], a.data_type[1])
        ELSE [out |-> <<>>, err |-> "none"], LAMBDA mapped :
        IF mapped.err # "none" THEN NoMelody(mapped.err)
        ELSE
    Let(IF a.tempo # None /\ a.tempo[1] # 0 THEN <<a.tempo[1], rng>>
        ELSE choice(rng, TEMPOS), LAMBDA tempo :
    Let(IF a.raw_data = None THEN generate_notes(None, a.total, tempo[2])
        ELSE IF a.data_type = None THEN generate_notes(None, None, tempo[2])
        ELSE generate_notes(Some(mapped.out), None, tempo[2]), LAMBDA result :
        IF result.err # "none" THEN NoMelody(result.err)
        ELSE
    Let(IF a.inst_range # None THEN FilterIn(result.notes, a.inst_range[1])
        ELSE result.notes, LAMBDA notes :
    Let(Len(result.notes), LAMBDA count :
    Let(generate_rhythms(count, Some(tempo[1]), None, result.rng, grng), LAMBDA rhythms :
    Let(generate_dynamics(count, a.allow_rests, rhythms.rng, rhythms.grng), LAMBDA dynamics :
        [err |-> "none", notes |-> notes, rhythms |-> rhythms.out,
         dynamics |-> dynamics.out, sampled |-> result.notes,
         tempo |-> tempo[1]])))))))

\* Generate.generate_melody(tempo, raw_data, data_type, total, inst_range,
\* allow_rests), the optional arguments None or Some(x); sampled is the list
\* generate_notes returned, before the filter
generate_melody(a, rng, grng) ==
    Let(IF a.data_type # None /\ a.raw_data # None
        THEN map_data(a.raw_data[1], a.data_type[1])
        ELSE [out |-> <<>>, err |-> "none"], LAMBDA mapped :
        IF mapped.err # "none" THEN NoMelody(mapped.err)
        ELSE
    Let(IF a.tempo # None /\ a.tempo[1] # 0 THEN <<a.tempo[1], rng>>
        ELSE choice(rng, TEMPOS), LAMBDA tempo :
    Let(IF a.raw_data = None THEN generate_notes(None, a.total, tempo[2])
        ELSE IF a.data_type = None THEN generate_notes(None, None, tempo[2])
        ELSE generate_notes(Some(mapped.out), None, tempo[2]), LAMBDA result :
        IF result.err # "none" THEN NoMelody(result.err)
        ELSE
    Let(IF a.inst_range # None THEN FilterIn(result.notes, a.inst_range[1])
        ELSE result.notes, LAMBDA notes :
    Let(Len(notes), LAMBDA count :
    Let(generate_rhythms(count, Some(tempo[1]), None, result.rng, grng), LAMBDA rhythms :
    Let(generate_dynamics(count, a.allow_rests, rhythms.rng, rhythms.grng), LAMBDA dynamics :
        [err |-> "none", notes |-> notes, rhythms |-> rhythms.out,
         dynamics |-> dynamics.out, sampled |-> result.notes,
         tempo |-> tempo[1]])))))))

\* number of notes asked of generate_melody
MelodyTotal == 3

\* the seeds of the selection and melody calls: streams of 36 raw values
\* that go through every residue
DrawTapes == {[i \in 1..36 |-> (a + b * (i - 1)) % 36] : a \in 0..11, b \in {1, 5, 7}}

\* the notes of NOTES from position i on whose octave is in octs
RECURSIVE NotesInOctaves(_, _)
NotesInOctaves(octs, i) ==
    IF i > Len(NOTES) THEN <<>>
    ELSE (IF NOTES[i][2] \in octs THEN <<NOTES[i]>> ELSE <<>>) \o NotesInOctaves(octs, i + 1)

\* the instrument ranges passed: none, one that holds no note, and the notes
\* of octaves 3 and 4
InstRanges == {None, Some(<<>>), Some(NotesInOctaves({3, 4}, 1))}

\* raw_data and data_type as passed together
MelodyData ==
    {<<None, None>>,
     <<Some(<<0, 2, 5>>), Some("int")>>,
     <<Some(<<7, 0, 9, 2>>), Some("int")>>,
     <<Some(<<3>>), Some("int")>>,
     <<Some(<<>>), Some("int")>>,
     <<Some(<<0 - 9, 0>>), Some("int")>>,
     <<Some(<<0, 1>>), None>>,
     <<Some(<<0, 1>>), Some("bogus")>>}

SelectCalls ==
    {<<f, [transpose |-> t, seed |-> sd]>> :
        f \in {"pick_scale", "pick_set", "generate_scale", "pick_root"},
        t \in BOOLEAN, sd \in DrawTapes}

MelodyGenCalls ==
    {<<"generate_melody",
       [tempo |-> t, raw_data |-> d[1], data_type |-> d[2], total |-> n,
        inst_range |-> r, allow_rests |-> ar, seed |-> sd]>> :
        t \in {None, Some(120)}, d \in MelodyData,
        n \in {None, Some(0), Some(MelodyTotal)},
        r \in InstRanges, ar \in BOOLEAN, sd \in DrawTapes}

\* the process-wide generator during these calls
GlobalRng == Rng(<<0>>)

\* mode, pcs, notes = pick_scale(transpose)
PickScale ==
    /\ fin[1] = "pick_scale" /\ fout = CallPending
    /\ fout' = [err |-> "none",
                r |-> pick_scale(fin[2].transpose, None, Rng(fin[2].seed))]
    /\ UNCHANGED <<fin, barVars, renderVars>>

\* fn, pcs, notes = pick_set(transpose)
PickSet ==
    /\ fin[1] = "pick_set" /\ fout = CallPending
    /\ fout' = [err |-> "none",
                r |-> pick_set(fin[2].transpose, None, Rng(fin[2].seed))]
    /\ UNCHANGED <<fin, barVars, renderVars>>

\* notes, pcs = generate_scale(transpose)
GenerateScale ==
    /\ fin[1] = "generate_scale" /\ fout = CallPending
    /\ fout' = [err |-> "none",
                r |-> generate_scale(fin[2].transpose, None, Rng(fin[2].seed))]
    /\ UNCHANGED <<fin, barVars, renderVars>>

\* notes, info = pick_root(transpose)
PickRoot ==
    /\ fin[1] = "pick_root" /\ fout = CallPending
    /\ fout' = [err |-> "none",
                r |-> pick_root(fin[2].transpose, None, Rng(fin[2].seed))]
    /\ UNCHANGED <<fin, barVars, renderVars>>

\* melody = generate_melody(...)
GenerateMelody ==
    /\ fin[1] = "generate_melody" /\ fout = CallPending
    /\ fout' = generate_melody(fin[2], Rng(fin[2].seed), GlobalRng)
    /\ UNCHANGED <<fin, barVars, renderVars>>

MelodyInit ==
    /\ BarInitState /\ RenderIdle
    /\ fin \in SelectCalls \cup MelodyGenCalls
    /\ fout = CallPending

MelodyNext ==
    PickScale \/ PickSet \/ GenerateScale \/ PickRoot \/ GenerateMelody

MelodySpec == MelodyInit /\ [][MelodyNext]_vars

(***************************************************************************)
(* The repetition limit (utils/tools.py scale_limit, and the run of        *)
(* generate_rhythms and generate_dynamics that draws under it).            *)
(***************************************************************************)
\* target lengths on both sides of every band of scale_limit
LimitTotals ==
    {1, 2, 10, 11, 14, 15, 100, 101, 300, 301, 500, 501, 700, 701, 1000,
     1001, 1999, 2000, 5000}

\* generators that repeat one raw value
ConstantTapes == {<<k>> : k \in 0..5}

LimitCalls ==
    {<<"scale_limit", [total |-> n, global |-> g]>> :
        n \in LimitTotals, g \in ConstantTapes}
    \cup
    {<<"repetition_run", [total |-> n, global |-> g, seed |-> sd]>> :
        n \in LimitTotals, g \in ConstantTapes, sd \in ConstantTapes}

\* limit = scale_limit(total)
ScaleLimit ==
    /\ fin[1] = "scale_limit" /\ fout = CallPending
    /\ fout' = [err |-> "none",
                limit |-> scale_limit(fin[2].total, Rng(fin[2].global))[1]]
    /\ UNCHANGED <<fin, barVars, renderVars>>

\* the head of a repetition run: limit = self._get_repetition_limit(total);
\* total_reps = self._randint(1, limit)
RepetitionRun ==
    /\ fin[1] = "repetition_run" /\ fout = CallPending
    /\ LET limit == get_repetition_limit(fin[2].total, Rng(fin[2].global))
       IN  fout' = [err |-> "none", limit |-> limit[1],
                    total_reps |-> randint(Rng(fin[2].seed), 1, limit[1])[1]]
    /\ UNCHANGED <<fin, barVars, renderVars>>

LimitInit ==
    /\ BarInitState /\ RenderIdle
    /\ fin \in LimitCalls
    /\ fout = CallPending

LimitNext == ScaleLimit \/ RepetitionRun

LimitSpec == LimitInit /\ [][LimitNext]_vars

(***************************************************************************)
(* core/generate.py: write_string_line, called again and again on one      *)
(* melody.                                                                 *)
(***************************************************************************)
\* calls made on one melody; notes asked of a call
MaxCalls == 2
LineTotal == 3

\* the position of a note of NOTES, from 1
NotePos(note) == CHOOSE i \in 1..Len(NOTES) : NOTES[i] = note

\* the notes of NOTES from lo to hi
NoteSpan(lo, hi) == {NOTES[i] : i \in NotePos(lo)..NotePos(hi)}

\* RANGE of core.constants: the registered pitch range of an instrument
RANGE(inst) ==
    CASE inst = "Violin" -> NoteSpan(<<"G", 3>>, <<"B", 6>>)
      [] inst = "Viola" -> NoteSpan(<<"C", 3>>, <<"E", 6>>)
      [] inst = "Cello" -> NoteSpan(<<"C", 2>>, <<"A", 5>>)
      [] inst = "Contrabass" -> NoteSpan(<<"E", 1>>, <<"G", 4>>)
      [] OTHER -> {}

\* the for loop of Generate.generate_source_scale from note k on: 28 notes,
\* the root going up an octave at its end and back to the first octave
\* instead of reaching octave 6
RECURSIVE SourceScaleLoop(_, _, _, _)
SourceScaleLoop(root, n, octave, scale) ==
    IF Len(scale) = 28 THEN scale
    ELSE LET next == Append(scale, <<root[n + 1], octave>>)
         IN  IF n + 1 = Len(root)
             THEN SourceScaleLoop(root, 0,
                                  IF octave + 1 = 6 THEN GENERATION_OCTAVE_START
                                  ELSE octave + 1,
                                  next)
             ELSE SourceScaleLoop(root, n + 1, octave, next)

\* Generate.generate_source_scale(root)
generate_source_scale(root) == SourceScaleLoop(root, 0, GENERATION_OCTAVE_START, <<>>)

\* the index window of an instrument in a scale: <<min_idx, max_idx>>
octave_ranges(inst, scale) ==
    CASE inst = "Violin" -> <<13, Len(scale) - 1>>
      [] inst = "Viola" -> <<7, Len(scale) - 8>>
      [] inst = "Cello" -> <<0, Len(scale) - 16>>

\* note = scale[randint(min_idx, max_idx)], drawn again while it is outside
\* the range: <<note, rng>>; the window holds a note of the range
RECURSIVE DrawInRange(_, _, _, _)
DrawInRange(scale, window, range, rng) ==
    LET i == randint(rng, window[1], window[2])
    IN  IF scale[i[1] + 1] \in range THEN <<scale[i[1] + 1], i[2]>>
        ELSE DrawInRange(scale, window, range, i[2])

\* the for loop of write_string_line: total notes drawn; [out, rng]
RECURSIVE DrawLine(_, _, _, _, _, _)
DrawLine(scale, window, range, total, out, rng) ==
    IF ~(Len(out) < total) THEN [out |-> out, rng |-> rng]
    ELSE LET d == DrawInRange(scale, window, range, rng)
         IN  DrawLine(scale, window, range, total, Append(out, d[1]), d[2])

\* Generate.write_string_line(part, scale, total, include_rhythm): the part
\* after the call, the exception raised ("no return" when the loop that
\* draws again never ends) and the total the call worked with
write_string_line(part, scale, total, include_rhythm, rng, grng) ==
    LET t == IF include_rhythm THEN randint(rng, 12, 30) ELSE <<total, rng>>
        windowed == part.instrument \in {"Violin", "Viola", "Cello"}
        window == octave_ranges(part.instrument, scale)
        range == RANGE(part.instrument)
        line == IF windowed THEN DrawLine(scale, window, range, t[1], <<>>, t[2])
                ELSE [out |-> <<>>, rng |-> t[2]]
        notes == part.notes \o line.out
        rhythms == generate_rhythms(Len(notes), Some(part.tempo), None, line.rng, grng)
        dynamics == generate_dynamics(Len(notes), TRUE, rhythms.rng, rhythms.grng)
    IN  IF part.instrument \notin {"Violin", "Viola", "Cello", "Contrabass"}
        THEN [err |-> "ValueError", part |-> part, rng |-> rng, grng |-> grng, total |-> total]
        ELSE IF windowed /\ t[1] > 0 /\ window[1] > window[2]
        THEN [err |-> "ValueError", part |-> part, rng |-> t[2], grng |-> grng, total |-> t[1]]
        ELSE IF windowed /\ t[1] > 0
                /\ ~\E i \in window[1]..window[2] : scale[i + 1] \in range
        THEN [err |-> "no return", part |-> part, rng |-> t[2], grng |-> grng, total |-> t[1]]
        ELSE IF ~include_rhythm
        THEN [err |-> "none", part |-> [part EXCEPT !.notes = notes],
              rng |-> line.rng, grng |-> grng, total |-> t[1]]
        ELSE IF part.tempo = 0
        THEN [err |-> "ZeroDivisionError", part |-> [part EXCEPT !.notes = notes],
              rng |-> line.rng, grng |-> grng, total |-> t[1]]
        ELSE [err |-> "none",
              part |-> [part EXCEPT !.notes = notes,
                                    !.rhythms = @ \o rhythms.out,
                                    !.dynamics = @ \o dynamics.out],
              rng |-> dynamics.rng, grng |-> dynamics.grng, total |-> t[1]]

\* the scales lines are written from: the source scales of a seven-note and
\* of a five-note root, and a scale of ten notes
LineScales ==
    {generate_source_scale(<<"C", "D", "E", "F", "G", "A", "B">>),
     generate_source_scale(<<"C", "Eb", "F", "G", "Bb">>),
     SubSeq(generate_source_scale(<<"C", "D", "E", "F", "G", "A", "B">>), 1, 10)}

\* the melodies lines are written to: Melody(tempo, instrument), the tempo
\* left at 0.0 or set
LineParts ==
    {Melody(t, i, <<>>, <<>>, <<>>) :
        t \in {0, 120},
        i \in {"Violin", "Viola", "Cello", "Contrabass", "Acoustic Grand Piano"}}

LineTapes == {[i \in 1..36 |-> (a + b * (i - 1)) % 36] : a \in {0, 7}, b \in {5, 7}}

LineCalls ==
    {<<"write_string_line", [scale |-> s, seed |-> sd]>> :
        s \in LineScales, sd \in LineTapes}

\* part = write_string_line(part, scale, total, include_rhythm); part is the
\* melody fout holds, all_rhythm tells that every call so far asked for
\* rhythms
WriteStringLine(total, include_rhythm) ==
    /\ fin[1] = "write_string_line"
    /\ fout.calls < MaxCalls
    /\ fout.err # "no return"
    /\ LET r == write_string_line(fout.part, fin[2].scale, total, include_rhythm,
                                  fout.rng, fout.grng)
       IN  fout' = [err |-> r.err, part |-> r.part, rng |-> r.rng, grng |-> r.grng,
                    calls |-> fout.calls + 1,
                    all_rhythm |-> fout.all_rhythm /\ include_rhythm,
                    total |-> r.total, include_rhythm |-> include_rhythm]
    /\ UNCHANGED <<fin, barVars, renderVars>>

LineInit ==
    /\ BarInitState /\ RenderIdle
    /\ fin \in LineCalls
    /\ \E p \in LineParts :
          fout = [err |-> "none", part |-> p, rng |-> Rng(fin[2].seed),
                  grng |-> GlobalRng, calls |-> 0, all_rhythm |-> TRUE,
                  total |-> 0, include_rhythm |-> FALSE]

LineNext ==
    \E total \in {0, 1, LineTotal}, include_rhythm \in BOOLEAN :
        WriteStringLine(total, include_rhythm)

LineSpec == LineInit /\ [][LineNext]_vars

(***************************************************************************)
(* Melody objects and the lists they refer to (containers/melody.py copy,  *)
(* core/modify.py retrograde and mutate).  A field of a Melody holds a     *)
(* reference to a list; heap[a] is the list at address a.                  *)
(***************************************************************************)
\* in-place changes made after a copy
MaxMutations == 2

\* the list fields of a Melody (info is a string)
ListFields == {"notes", "rhythms", "dynamics", "pcs", "source_data", "source_notes"}

\* no object
NoObject == [f \in ListFields |-> 0]

\* the lists an object shows through its fields
View(heap, obj) == [f \in ListFields |-> heap[obj[f]]]

\* Melody.copy(): new lists for notes, rhythms and dynamics, the references
\* of pcs, source_data and source_notes; [heap, obj]
MelodyCopy(heap, m) ==
    [heap |-> heap \o <<heap[m["notes"]], heap[m["rhythms"]], heap[m["dynamics"]]>>,
     obj |-> [m EXCEPT !["notes"] = Len(heap) + 1,
                       !["rhythms"] = Len(heap) + 2,
                       !["dynamics"] = Len(heap) + 3]]

\* list(reversed(xs))
Reversed(xs) == [i \in 1..Len(xs) |-> xs[Len(xs) + 1 - i]]

\* retrograde(orig_melody): a copy whose notes, rhythms and dynamics are set
\* to new reversed lists
retrograde(heap, m) ==
    LET c == MelodyCopy(heap, m)
    IN  [heap |-> c.heap \o <<Reversed(heap[m["notes"]]), Reversed(heap[m["rhythms"]]),
                              Reversed(heap[m["dynamics"]])>>,
         obj |-> [c.obj EXCEPT !["notes"] = Len(c.heap) + 1,
                               !["rhythms"] = Len(c.heap) + 2,
                               !["dynamics"] = Len(c.heap) + 3]]

\* the orders shuffle(xs) can leave a list in
Shuffles(xs) ==
    {[i \in 1..Len(xs) |-> xs[p[i]]] : p \in Permutations(1..Len(xs))}

\* the melodies copied: up to two notes, with or without metadata
CopyCalls ==
    {<<"copy", [notes |-> SubSeq(<<(<<"C", 4>>), (<<"A", 0>>)>>, 1, n),
                rhythms |-> SubSeq(<<Half(2), Half(3)>>, 1, n),
                dynamics |-> SubSeq(<<64, 100>>, 1, n),
                pcs |-> pcs, source_data |-> sd, source_notes |-> sn]>> :
        n \in 0..2, pcs \in {<<>>, <<0, 9>>}, sd \in {<<>>, <<5>>},
        sn \in {<<>>, <<(<<"C", 4>>)>>}}

\* the caller's melody: one list per field
OrigObject ==
    [f \in ListFields |->
        CASE f = "notes" -> 1 [] f = "rhythms" -> 2 [] f = "dynamics" -> 3
          [] f = "pcs" -> 4 [] f = "source_data" -> 5 [] f = "source_notes" -> 6]

\* the new object a call returned is held as res
Derived(r, op) ==
    /\ fout' = [err |-> "none", heap |-> r.heap, orig |-> OrigObject, res |-> r.obj,
                op |-> op, n |-> fout.n + 1]
    /\ UNCHANGED <<fin, barVars, renderVars>>

\* res = mel.copy()
CopyMelody ==
    /\ fin[1] = "copy" /\ fout.res = NoObject
    /\ Derived(MelodyCopy(fout.heap, fout.orig), <<"copy">>)

\* res = retrograde(mel)
Retrograde ==
    /\ fin[1] = "copy" /\ fout.res = NoObject
    /\ Derived(retrograde(fout.heap, fout.orig), <<"retrograde">>)

\* res = mutate(mel): a copy whose notes, rhythms and dynamics are shuffled
\* in place, each on its own
Mutate ==
    /\ fin[1] = "copy" /\ fout.res = NoObject
    /\ LET c == MelodyCopy(fout.heap, fout.orig)
       IN  \E ns \in Shuffles(c.heap[c.obj["notes"]]),
              rs \in Shuffles(c.heap[c.obj["rhythms"]]),
              ds \in Shuffles(c.heap[c.obj["dynamics"]]) :
              Derived([heap |-> [c.heap EXCEPT ![c.obj["notes"]] = ns,
                                               ![c.obj["rhythms"]] = rs,
                                               ![c.obj["dynamics"]] = ds],
                       obj |-> c.obj],
                      <<"mutate">>)

\* res.field.append(x) (through = "res") or mel.field.append(x) (through =
\* "orig"): a change of the list in place
AppendInPlace(through, field) ==
    /\ fin[1] = "copy" /\ fout.res # NoObject
    /\ fout.n <= MaxMutations
    /\ LET obj == IF through = "res" THEN fout.res ELSE fout.orig
       IN  fout' = [fout EXCEPT !.heap[obj[field]] = Append(@, 0),
                                !.op = <<"append", through, field>>,
                                !.n = @ + 1]
    /\ UNCHANGED <<fin, barVars, renderVars>>

CopyInit ==
    /\ BarInitState /\ RenderIdle
    /\ fin \in CopyCalls
    /\ fout = [err |-> "none",
               heap |-> <<fin[2].notes, fin[2].rhythms, fin[2].dynamics,
                          fin[2].pcs, fin[2].source_data, fin[2].source_notes>>,
               orig |-> OrigObject, res |-> NoObject, op |-> <<"Melody">>, n |-> 0]

CopyNext ==
    \/ CopyMelody
    \/ Retrograde
    \/ Mutate
    \/ \E through \in {"res", "orig"}, field \in ListFields : AppendInPlace(through, field)

CopySpec == CopyInit /\ [][CopyNext]_vars

(***************************************************************************)
(* scale_to_tempo on a list (utils/tools.py) and the assembly of rest()    *)
(* (compositions/rest.py).  Durations are thousandths of a second.         *)
(***************************************************************************)
\* times a caller scales the same list
MaxScalings == 2

\* scale_to_tempo(tempo, rhythms) on a list: every element is replaced, in
\* the list itself, by its scaled value and the list is returned; the lists
\* it can hold afterwards
RECURSIVE ScaledLists(_, _)
ScaledLists(tempo, ks) ==
    IF ks = <<>> THEN {<<>>}
    ELSE {<<k>> \o rest : k \in scale_to_tempo(tempo, ks[1], FALSE),
                          rest \in ScaledLists(tempo, Tail(ks))}

\* the constants of rest.py
TEMPO == 73
FORM == <<"A", "B", "A", "C", "D", "C", "A", "B", "A">>
SectionNames == <<"A", "B", "C", "D">>
RestRhythms == <<500, 1000, 2000>>
SectionA ==
    <<1000, 500, 500, 2000, 1000, 500, 500, 2000, 2000, 1000, 500, 500, 2000,
      1000, 500, 500, 1000, 1000, 1000, 1000, 500, 500, 1000, 1000, 500, 500>>

\* Generate._validate_tempo(tempo)
validate_tempo(tempo) == IF 40 <= tempo /\ tempo <= 208 THEN tempo ELSE BASE_TEMPO

\* one pass of the generating loop of rest(): total = randint(13, 27), total
\* notes drawn, then total rhythms drawn from RHYTHMS; [out, rng]
GenerateSection(rng) ==
    LET total == randint(rng, 13, 27)
    IN  Choices(RestRhythms, total[1], <<>>, [total[2] EXCEPT !.pos = @ + total[1]])

\* the generating loop of rest(): the rhythms of the sections A (authored),
\* B, C and D (drawn)
GenerateSections(rng) ==
    LET b == GenerateSection(rng)
        c == GenerateSection(b.rng)
        d == GenerateSection(c.rng)
    IN  [A |-> SectionA, B |-> b.out, C |-> c.out, D |-> d.out]

ScaleListCalls ==
    {<<"scale_list", [tempo |-> t, rhythms |-> rs]>> :
        t \in {60, 73, 90, 120}, rs \in SeqsUpTo({500, 1000, 1500}, 2)}

RestCalls == {<<"rest", [seed |-> sd]>> : sd \in LineTapes}

\* out = scale_to_tempo(tempo, rhythms) on the caller's list: src is the
\* caller's list, outs the values of the lists returned, as read at each
\* return
ScaleList ==
    /\ fin[1] = "scale_list"
    /\ Len(fout.outs) < MaxScalings
    /\ \E out \in ScaledLists(fin[2].tempo, fout.src) :
          fout' = [fout EXCEPT !.src = out, !.outs = Append(@, out)]
    /\ UNCHANGED <<fin, barVars, renderVars>>

\* rest(), up to the assembly: comp.tempo is set, gtr is empty, B, C and D
\* are generated
RestGenerate ==
    /\ fin[1] = "rest" /\ fout.stage = "start"
    /\ fout' = [fout EXCEPT !.stage = "assembling",
                            !.tempo = validate_tempo(TEMPO),
                            !.sects = GenerateSections(Rng(fin[2].seed))]
    /\ UNCHANGED <<fin, barVars, renderVars>>

\* one pass of the assembling loop of rest(): the rhythms of the section
\* FORM[f] are scaled in their own list and gtr.rhythms is extended by them
RestAssemble ==
    /\ fin[1] = "rest" /\ fout.stage = "assembling"
    /\ fout.f < Len(FORM)
    /\ LET name == FORM[fout.f + 1]
       IN  \E out \in ScaledLists(fout.tempo, fout.sects[name]) :
              fout' = [fout EXCEPT !.sects[name] = out,
                                   !.gtr = @ \o out,
                                   !.f = @ + 1]
    /\ UNCHANGED <<fin, barVars, renderVars>>

RestInit ==
    /\ BarInitState /\ RenderIdle
    /\ fin \in ScaleListCalls \cup RestCalls
    /\ fout = IF fin[1] = "scale_list"
              THEN [err |-> "none", src |-> fin[2].rhythms, outs |-> <<>>]
              ELSE [err |-> "none", stage |-> "start", tempo |-> 0,
                    sects |-> [A |-> SectionA, B |-> <<>>, C |-> <<>>, D |-> <<>>],
                    gtr |-> <<>>, f |-> 0]

RestNext == ScaleList \/ RestGenerate \/ RestAssemble

RestSpec == RestInit /\ [][RestNext]_vars

(***************************************************************************)
(* Quantizing a melody: while it is not empty, a fresh Bar of the caller's *)
(* meter and tempo takes what it can hold (containers/bar.py).             *)
(***************************************************************************)
\* a rhythm so long that the floats around it are further apart than a bar
\* is long
LongRhythm == Sec(Pow2(Precision + 3))

\* longest melody that is quantized
QuantLen == 3

\* rhythms of the melodies that are quantized
QuantRhythmVals == {0, Half(2), Half(15), LongRhythm}

QuantMeters == {<<1, FloatNum(4)>>, <<2, FloatNum(4)>>}

QuantTempos == {120}

QuantizeCalls ==
    {<<"quantize", [rhythms |-> rs, meter |-> m, tempo |-> t]>> :
        rs \in SeqsUpTo(QuantRhythmVals, QuantLen), m \in QuantMeters, t \in QuantTempos}

QuantizeInit == BarInitState /\ RenderIdle /\ CallIdle

\* the caller builds the melody it is going to quantize
QuantizeStart(call) ==
    /\ fin[1] = "none"
    /\ fin' = call
    /\ mel' = Melody(120, "Violin",
                     SubSeq(NoteLabels, 1, Len(call[2].rhythms)),
                     call[2].rhythms,
                     SubSeq(DynamicLabels, 1, Len(call[2].rhythms)))
    /\ last' = <<"Melody", <<>>>>
    /\ UNCHANGED <<bar, hasBar, err, fout, renderVars>>

\* b = Bar(meter, tempo); mel = b.add_notes(mel)
QuantizeBar ==
    /\ fin[1] = "quantize"
    /\ BarInitError(Some(fin[2].meter), Some(fin[2].tempo), None) = "none"
    /\ LET r == BarAddNotes(BarInit(Some(fin[2].meter), Some(fin[2].tempo), None), mel)
       IN  /\ bar' = r[1]
           /\ mel' = r[2]
    /\ hasBar' = TRUE
    /\ err' = "none"
    /\ last' = <<"add_notes", <<>>>>
    /\ UNCHANGED <<renderVars, callVars>>

QuantizeNext ==
    \/ \E call \in QuantizeCalls : QuantizeStart(call)
    \/ QuantizeBar

QuantizeSpec == QuantizeInit /\ [][QuantizeNext]_vars

\* the caller goes on making bars as long as a bar changes anything
QuantizeLive == QuantizeSpec /\ WF_vars(QuantizeNext)

(***************************************************************************)
(* Properties of the bar.                                                  *)
(***************************************************************************)
\* the exact sum of stored values
RECURSIVE Total(_)
Total(xs) == IF xs = <<>> THEN 0 ELSE xs[1] + Total(Tail(xs))

\* the beat reached from c by adding the rhythms rs one after the other
RECURSIVE RunningBeat(_, _)
RunningBeat(c, rs) ==
    IF rs = <<>> THEN c
    ELSE FAdd(RunningBeat(c, SubSeq(rs, 1, Len(rs) - 1)), rs[Len(rs)])

\* the rounding a result of magnitude x can carry: none while x lies on the
\* exact grid, one unit in the last place above it
RoundErr(x) == IF x < Pow2(Precision) THEN 0 ELSE Ulp(x)

C2_DurationConserved ==
    [][last'[1] = "add_notes" =>
         Total(bar'.Rhythms) + Total(mel'.rhythms)
             = Total(bar.Rhythms) + Total(mel.rhythms)]_vars

\* an add_notes call has split a note and left a remainder of three notes
C2_Witness ==
    /\ hasBar /\ bar.full /\ last[1] = "add_notes"
    /\ Len(bar.Rhythms) >= 2
    /\ Len(mel.rhythms) = 3 /\ mel.rhythms[1] > 0

\* C3: current_beat never exceeds length; after the call that fills the bar
\* current_beat equals length and space_left() is not negative.
C3_BeatWithinLength ==
    hasBar =>
        /\ bar.current_beat <= bar.length
        /\ (bar.full /\ last[1] = "add_notes") =>
               (bar.current_beat = bar.length /\ space_left(bar) >= 0)

\* C4: the call of add_notes that fills the bar commits the triples before
\* the boundary verbatim and the triple that reaches it with its rhythm
\* shortened by the overflow, and returns that triple, its rhythm now the
\* overflow, followed by the rest of the melody untouched; and a triple
\* that reaches the boundary does fill the bar.
C4_SplitAtBoundary ==
    [][(last'[1] = "add_notes" /\ ~bar.full) =>
         /\ (\E j \in 1..Len(mel.rhythms) :
                RunningBeat(bar.current_beat, SubSeq(mel.rhythms, 1, j)) >= bar.length)
                => bar'.full
         /\ bar'.full =>
              LET k == Len(bar'.Notes) - Len(bar.Notes)
                  n == Len(mel.notes)
                  overflow == FSub(bar'.current_beat, bar.length)
              IN  /\ 1 <= k /\ k <= n
                  /\ bar'.current_beat
                        = RunningBeat(bar.current_beat, SubSeq(mel.rhythms, 1, k))
                  /\ bar'.current_beat >= bar.length
                  /\ \A j \in 1..(k - 1) :
                        RunningBeat(bar.current_beat, SubSeq(mel.rhythms, 1, j))
                            < bar.length
                  /\ bar'.Notes = bar.Notes \o SubSeq(mel.notes, 1, k)
                  /\ bar'.Dynamics = bar.Dynamics \o SubSeq(mel.dynamics, 1, k)
                  /\ bar'.Rhythms = bar.Rhythms \o SubSeq(mel.rhythms, 1, k - 1)
                                      \o <<FSub(mel.rhythms[k], overflow)>>
                  /\ mel'.notes = SubSeq(mel.notes, k, n)
                  /\ mel'.dynamics = SubSeq(mel.dynamics, k, n)
                  /\ mel'.rhythms = <<overflow>> \o SubSeq(mel.rhythms, k + 1, n)]_vars

\* the scenario: a (4,4) bar of length 4.0 fed [1.0, 1.0, 1.0, 1.5] on A, B, C, D
C4_Witness ==
    /\ hasBar /\ last[1] = "add_notes"
    /\ bar.meter = <<4, IntNum(4)>> /\ bar.length = Sec(4) /\ bar.full
    /\ bar.Notes = <<"A", "B", "C", "D">>
    /\ bar.Rhythms = <<Sec(1), Sec(1), Sec(1), Sec(1)>>
    /\ bar.Dynamics = SubSeq(DynamicLabels, 1, 4)
    /\ mel.notes = <<"D">> /\ mel.rhythms = <<Half(1)>>
    /\ mel.dynamics = <<DynamicLabels[4]>>

\* the length of n beats of one d-th of a whole note each at the given tempo
\* (a quarter note lasts one second at 60 BPM)
NominalLength(meter, tempo) ==
    FlRat(meter[1] * 4 * 60 * UnitsPerSecond * UnitsPerSecond, meter[2].v * tempo)

\* C5: constructing a Bar with a valid meter and an accepted tempo succeeds,
\* with length = numerator times the tempo-scaled duration of one
\* denominator unit (4.0 for meter (4,4) at tempo 60 and for Bar()).
C5_ValidBarIsBuilt ==
    (/\ last[1] = "Bar"
     /\ is_valid(CtorMeter(last[2][1]))
     /\ last[2][2] = None \/ (40 < last[2][2][1] /\ last[2][2][1] < 240)
     /\ last[2][3] = None \/ last[2][3][1] \in INSTRUMENTS)
    => /\ err = "none"
       /\ hasBar
       /\ bar.length = NominalLength(CtorMeter(last[2][1]), CtorTempo(last[2][2]))

C7_ClearResetsEveryField ==
    last[1] = "clear" =>
        /\ bar.meter = <<>> /\ bar.tempo = 0 /\ bar.length = 0
        /\ bar.instrument = "" /\ bar.current_beat = 0
        /\ bar.full = FALSE
        /\ bar.Notes = <<>> /\ bar.Rhythms = <<>> /\ bar.Dynamics = <<>>

\* C8: only the constructor and clear() write length: add_notes and
\* set_meter leave it as it was.
C8_LengthWrittenByCtorAndClearOnly ==
    [][bar'.length # bar.length => last'[1] \in {"Bar", "clear"}]_vars

\* set_meter has succeeded on a bar that adopted a melody's tempo, and both
\* the tempo and the meter now imply another length than the bar has
C8_Witness ==
    /\ hasBar /\ last[1] = "set_meter" /\ err = "none"
    /\ bar.Notes # <<>> /\ bar.tempo = 120
    /\ bar.meter = <<4, IntNum(4)>>
    /\ bar.length # BarLength(bar.meter, bar.tempo)

(***************************************************************************)
(* Properties of the renderer.                                             *)
(***************************************************************************)
\* the MIDI number of a note: 12 to the octave, C-1 being 0
MidiNumber(note) ==
    12 * (note[2] + 1)
      + (CHOOSE p \in 1..12 : PitchClassNames[p] = note[1]) - 1

\* C9 as stated: the cursor melody_to_notes returns is start plus the sum of
\* all rhythms, the sum taken exactly or taken first in floating point.
C9_CursorIsStartPlusSum ==
    (rin[1] = "melody" /\ rout.err = "none") =>
        \/ rout.cursor = rin[3] + Total(rin[2].rhythms)
        \/ rout.cursor = FAdd(rin[3], FSum(rin[2].rhythms))

\* C9: melody_to_notes on a melody of n notes, rhythms and dynamics whose
\* notes are in the table returns n events in melody order: the first starts
\* at start, each ends its rhythm after it starts and carries its note's pitch
\* and its dynamic as velocity, each next one starts where the one before
\* ends, and the cursor returned is the end of the last event: start with
\* the rhythms added to it one at a time, in order, each addition rounded.
C9_MelodyEventsAreSequential ==
    rin[1] = "melody" =>
        LET m == rin[2]
            n == Len(m.notes)
            ev == rout.events
        IN  /\ (rout # Pending /\ \A i \in 1..n : InNotes(m.notes[i]))
                  => rout.err = "none"
            /\ rout.err = "none" =>
                 /\ Len(ev) = n
                 /\ \A i \in 1..n :
                      /\ ev[i].start = IF i = 1 THEN rin[3] ELSE ev[i - 1].end
                      /\ ev[i].end = FAdd(ev[i].start, m.rhythms[i])
                      /\ ev[i].pitch = MidiNumber(m.notes[i])
                      /\ ev[i].velocity = m.dynamics[i]
                 /\ rout.cursor = RunningBeat(rin[3], m.rhythms)

\* three notes rendered from a start time other than 0
C9_Witness ==
    /\ rin[1] = "melody" /\ rout.err = "none"
    /\ Len(rout.events) = 3 /\ rin[3] > 0
    /\ rout.events[3].start > rout.events[2].start
    /\ rout.cursor = rout.events[3].end

\* C10: chord_to_notes returns one event per member note, each from start to
\* start + the chord's rhythm with the chord's dynamic as velocity, and the
\* cursor start + the chord's rhythm, whatever the number of notes.
C10_ChordSharesOneInterval ==
    rin[1] = "chord" =>
        LET c == rin[2]
            n == Len(c.notes)
            ev == rout.events
        IN  /\ (rout # Pending /\ \A i \in 1..n : InNotes(c.notes[i]))
                  => rout.err = "none"
            /\ rout.err = "none" =>
                 /\ Len(ev) = n
                 /\ \A i \in 1..n :
                      /\ ev[i].start = rin[3]
                      /\ ev[i].end = FAdd(rin[3], c.rhythm)
                      /\ ev[i].pitch = MidiNumber(c.notes[i])
                      /\ ev[i].velocity = c.dynamic
                 /\ rout.cursor = FAdd(rin[3], c.rhythm)

\* a chord of three notes rendered from a start time other than 0
C10_Witness ==
    /\ rin[1] = "chord" /\ rout.err = "none"
    /\ Len(rout.events) = 3 /\ rin[3] > 0
    /\ rout.cursor = FAdd(rin[3], rin[2].rhythm)
    /\ rout.events[1].end = rout.cursor /\ rout.events[3].end = rout.cursor

\* the rhythms a list part adds to the cursor, in order: every rhythm of a
\* melody, one rhythm for a chord
RECURSIVE ItemRhythms(_)
ItemRhythms(items) ==
    IF items = <<>> THEN <<>>
    ELSE (IF items[1][1] = "melody" THEN items[1][2].rhythms
          ELSE IF items[1][1] = "chord" THEN <<items[1][2].rhythm>>
          ELSE <<>>) \o ItemRhythms(Tail(items))

\* C11 as stated: for a list part rendered onto one track the start times of
\* the events, in emission order, never decrease, and the final cursor is the
\* start time plus every melody rhythm plus one rhythm per chord (added in
\* order, or summed exactly).
C11_ListStartsNonDecreasing ==
    (rin[1] = "part" /\ rin[2][1] = "list" /\ rout.err = "none") =>
        /\ \A i \in 1..(Len(rout.events) - 1) :
              rout.events[i].start <= rout.events[i + 1].start
        /\ \/ rout.cursor = RunningBeat(rin[3], ItemRhythms(rin[2][2]))
           \/ rout.cursor = rin[3] + Total(ItemRhythms(rin[2][2]))

\* C12 as stated: every event of a written export has pitch and velocity in
\* 0..127, start >= 0 and end >= start.
C12_ExportedEventsInRange ==
    (rin[1] = "export" /\ rout # Pending /\ rout.written) =>
        \A t \in 1..Len(rout.events) : \A i \in 1..Len(rout.events[t]) :
            LET e == rout.events[t][i]
            IN  /\ e.pitch \in 0..127
                /\ e.velocity \in 0..127
                /\ e.start >= 0
                /\ e.end >= e.start

\* a note of the part that the table does not hold
HasUnknownNote(x) == \E i \in 1..Len(x.notes) : ~InNotes(x.notes[i])

\* a part the claim names as failing: an empty list, a list with an item
\* that is neither Melody nor Chord, a note name that does not resolve
PartHasDefect(part) ==
    \/ part[1] \in {"melody", "chord"} /\ HasUnknownNote(part[2])
    \/ part[1] = "list" /\ part[2] = <<>>
    \/ part[1] = "list" /\ \E k \in 1..Len(part[2]) :
          \/ part[2][k][1] \notin {"melody", "chord"}
          \/ part[2][k][1] \in {"melody", "chord"} /\ HasUnknownNote(part[2][k][2])

\* C13: export_midi writes the file only when the composition has at least
\* one part and every part rendered; with no parts, or with a part that
\* fails to render (empty list, item of another type, unresolvable note), it
\* ends with an error and writes nothing; what it writes is the parts'
\* tracks in insertion order.
C13_WriteOnlyAfterAllPartsRender ==
    (rin[1] = "export" /\ rout # Pending) =>
        LET parts == rin[2]
        IN  /\ Len(parts) = 0 => (~rout.written /\ rout.err = "ValueError")
            /\ (\E i \in 1..Len(parts) : PartHasDefect(parts[i])) => ~rout.written
            /\ rout.written <=>
                  /\ Len(parts) > 0
                  /\ \A i \in 1..Len(parts) : part_to_instrument(parts[i], 0).err = "none"
            /\ rout.written =>
                  /\ rout.err = "none"
                  /\ Len(rout.events) = Len(parts)
                  /\ \A i \in 1..Len(parts) :
                        rout.events[i] = part_to_instrument(parts[i], 0).events
            /\ ~rout.written => (rout.err # "none" /\ rout.events = <<>>)

\* an export whose first part rendered and whose second part failed
C13_Witness ==
    /\ rin[1] = "export" /\ rout # Pending
    /\ Len(rin[2]) = 2
    /\ part_to_instrument(rin[2][1], 0).err = "none"
    /\ PartHasDefect(rin[2][2])
    /\ ~rout.written /\ rout.err = "ValueError"

\* C14: a melody, chord or list part with a note the chromatic table does
\* not hold fails to render: the call raises and returns no event at all,
\* neither for that note nor for the others.
C14_UnknownNoteFailsRender ==
    /\ (rin[1] \in {"melody", "chord"} /\ rout # Pending /\ HasUnknownNote(rin[2]))
          => (rout.err = "ValueError" /\ rout.events = <<>>)
    /\ (rin[1] = "part" /\ rout # Pending /\
          \E k \in 1..Len(rin[2][2]) :
              /\ rin[2][2][k][1] \in {"melody", "chord"}
              /\ HasUnknownNote(rin[2][2][k][2]))
          => (rout.err # "none" /\ rout.events = <<>>)
    /\ (rin[1] \in {"melody", "chord", "part"} /\ rout # Pending /\ rout.err = "none")
          => \A i \in 1..Len(rout.events) : rout.events[i].pitch \in 21..108

\* a melody of three notes whose second is not in the table
C14_Witness ==
    /\ rin[1] = "melody" /\ rout # Pending
    /\ Len(rin[2].notes) = 3
    /\ InNotes(rin[2].notes[1]) /\ ~InNotes(rin[2].notes[2]) /\ InNotes(rin[2].notes[3])
    /\ rout.err = "ValueError" /\ rout.events = <<>>

(***************************************************************************)
(* Properties of the generator.                                            *)
(***************************************************************************)
\* C15 as stated: two instances built from the same seed and given the same
\* call return the same output whatever the process-wide generator holds.
C15_SameSeedSameOutput ==
    (fin[1] \in {"generate_rhythms", "generate_dynamics"} /\ fout # CallPending) =>
        fout.first.out = fout.second.out

\* the palette generate_rhythms draws from, as returned
RhythmPalette(a) ==
    LET source == IF a.source # None THEN a.source[1] ELSE RHYTHMS
    IN  IF a.tempo # None /\ a.tempo[1] # BASE_TEMPO
        THEN {Round3(FMul(source[i], FDiv(Sec(60), Sec(a.tempo[1])))) :
                 i \in 1..Len(source)}
        ELSE {source[i] : i \in 1..Len(source)}

\* C16: generate_rhythms(total = N) and generate_dynamics(total = N) return
\* after at most 3 N and 4 N draws from the instance's generator, with
\* exactly N elements, each from the palette in use: RHYTHMS or the source
\* rhythms, scaled when a tempo other than the base tempo is given;
\* DYNAMICS, with the rest only when rests are allowed.
C16_ExactlyTotalFromPalette ==
    /\ (fin[1] = "generate_rhythms" /\ fout # CallPending) =>
          \A r \in {fout.first, fout.second} :
              /\ Len(r.out) = fin[2].total
              /\ r.rng.pos <= 3 * fin[2].total
              /\ \A i \in 1..Len(r.out) : r.out[i] \in RhythmPalette(fin[2])
    /\ (fin[1] = "generate_dynamics" /\ fout # CallPending) =>
          \A r \in {fout.first, fout.second} :
              /\ Len(r.out) = fin[2].total
              /\ r.rng.pos <= 4 * fin[2].total
              /\ \A i \in 1..Len(r.out) :
                    \/ \E k \in 1..Len(DYNAMICS) : r.out[i] = DYNAMICS[k]
                    \/ fin[2].allow_rests /\ r.out[i] = REST

\* a long run of rhythms, scaled to a tempo, ending on a repetition
C16_Witness ==
    /\ fin[1] = "generate_rhythms" /\ fout # CallPending
    /\ fin[2].total = LongTotal /\ fin[2].tempo = Some(120)
    /\ Len(fout.first.out) = LongTotal
    /\ fout.first.out[LongTotal] = fout.first.out[LongTotal - 1]

(***************************************************************************)
(* Properties of the transforms.                                           *)
(***************************************************************************)
\* C17 as stated: scaling a duration of x thousandths to a tempo and
\* reverting the result gives a duration within 0.001 of x.
C17_RoundTripWithinTolerance ==
    (fin[1] = "scale_to_tempo" /\ fout # CallPending /\ fout.stage = "reverted") =>
        Abs(fout.val - fin[2].x) <= 1

\* C18 as stated: a result of invert has the length of its input, starts on
\* the input's first note, and its intervals in the chromatic table are the
\* input's intervals negated.
C18_InvertNegatesIntervals ==
    (fin[1] = "invert" /\ fout # CallPending /\ fout.err = "none") =>
        LET notes == fin[2].notes
            out == fout.out
        IN  /\ Len(out) = Len(notes)
            /\ out[1] = notes[1]
            /\ \A i \in 2..Len(notes) :
                  NotesIndex(out[i]) - NotesIndex(out[i - 1])
                    = 0 - (NotesIndex(notes[i]) - NotesIndex(notes[i - 1]))

\* the distance transpose adds to element i
DistAt(dist, i) == IF dist[1] = "int" THEN dist[2] ELSE dist[2][i]

\* C19: transpose(pcs, d, oct_eq=True), d an integer or a list as long as
\* pcs, returns a list as long as pcs whose element i is in 0..11 and
\* congruent to pcs[i] + d_i modulo 12.
C19_TransposeStaysInOctave ==
    (/\ fin[1] = "transpose" /\ fout # CallPending /\ fin[2].oct_eq
     /\ \/ fin[2].dist[1] = "int"
        \/ fin[2].dist[1] = "list" /\ Len(fin[2].dist[2]) = Len(fin[2].pcs)) =>
        /\ fout.err = "none"
        /\ Len(fout.out) = Len(fin[2].pcs)
        /\ \A i \in 1..Len(fin[2].pcs) :
              /\ fout.out[i] \in 0..11
              /\ \E q \in (0 - 10)..10 :
                    fin[2].pcs[i] + DistAt(fin[2].dist, i) = 12 * q + fout.out[i]

\* a transposition whose sums fall below 0 and above 11
C19_Witness ==
    /\ fin[1] = "transpose" /\ fout # CallPending /\ fin[2].oct_eq
    /\ fin[2].dist[1] = "list" /\ fout.err = "none"
    /\ Len(fin[2].pcs) = 2
    /\ fin[2].pcs[1] + fin[2].dist[2][1] < 0
    /\ fin[2].pcs[2] + fin[2].dist[2][2] > 11
    /\ fout.out[1] \in 0..11 /\ fout.out[2] \in 0..11

\* C20: transpose with a distance list, and change_durations with a value
\* list, whose length differs from the sequence's raise ValueError: nothing
\* is returned and the caller's sequence is as it was.
C20_LengthMismatchFails ==
    /\ (/\ fin[1] = "transpose" /\ fout # CallPending
        /\ fin[2].dist[1] = "list" /\ Len(fin[2].dist[2]) # Len(fin[2].pcs)) =>
          (fout.err = "ValueError" /\ fout.out = <<>> /\ fout.pcs = fin[2].pcs)
    /\ (/\ fin[1] = "change_durations" /\ fout # CallPending
        /\ fin[2].val[1] = "list" /\ Len(fin[2].val[2]) # Len(fin[2].rhythms)) =>
          (fout.err = "ValueError" /\ fout.out = <<>> /\ fout.rhythms = fin[2].rhythms)

\* a transpose of two pitch classes by a list of one distance
C20_Witness ==
    /\ fin[1] = "transpose" /\ fout # CallPending
    /\ Len(fin[2].pcs) = 2
    /\ fin[2].dist[1] = "list" /\ Len(fin[2].dist[2]) = 1
    /\ fout.err = "ValueError" /\ fout.out = <<>>

(***************************************************************************)
(* Properties of the generated melodies and lines.                         *)
(***************************************************************************)
\* C21: a melody generate_melody returns has as many rhythms and dynamics
\* as notes, and with an inst_range its notes are the sampled notes the
\* range holds, in order: rhythms and dynamics are sized after the filter.
C21_MelodySequencesEqualLength ==
    (fin[1] = "generate_melody" /\ fout # CallPending /\ fout.err = "none") =>
        /\ Len(fout.rhythms) = Len(fout.notes)
        /\ Len(fout.dynamics) = Len(fout.notes)
        /\ fin[2].inst_range # None =>
              fout.notes = FilterIn(fout.sampled, fin[2].inst_range[1])
        /\ fin[2].inst_range = None => fout.notes = fout.sampled

\* the filter removed some of the sampled notes and kept others
C21_Witness ==
    /\ fin[1] = "generate_melody" /\ fout # CallPending /\ fout.err = "none"
    /\ fin[2].inst_range # None
    /\ 0 < Len(fout.notes) /\ Len(fout.notes) < Len(fout.sampled)
    /\ Len(fout.rhythms) = Len(fout.notes)

\* the largest limit of the band of a target length n >= 1: 3 up to 10, then
\* the floor of 20%, 7.5%, 5%, 3.5%, 2% and 0.1% of n
BandMax(n) ==
    IF n <= 10 THEN 3
    ELSE IF n <= 100 THEN (n * 20) \div 100
    ELSE IF n <= 300 THEN (n * 75) \div 1000
    ELSE IF n <= 500 THEN (n * 5) \div 100
    ELSE IF n <= 700 THEN (n * 35) \div 1000
    ELSE IF n <= 1000 THEN (n * 2) \div 100
    ELSE n \div 1000

\* C22 as stated: scale_limit(N) returns a limit between 1 and the band
\* maximum of N (at least 1), and the length drawn for a repetition run of
\* a sequence of N elements lies between 1 and that band maximum.
C22_LimitWithinBand ==
    (fout # CallPending /\ fin[1] \in {"scale_limit", "repetition_run"}) =>
        LET top == IF BandMax(fin[2].total) > 1 THEN BandMax(fin[2].total) ELSE 1
        IN  /\ fin[1] = "scale_limit" => (1 <= fout.limit /\ fout.limit <= top)
            /\ fin[1] = "repetition_run" =>
                  (1 <= fout.total_reps /\ fout.total_reps <= top)

\* the scale serves the instrument: its index window, when the instrument
\* has one, holds a note of the instrument's range
WindowServes(inst, scale) ==
    inst \in {"Violin", "Viola", "Cello"} =>
        \E i \in octave_ranges(inst, scale)[1]..octave_ranges(inst, scale)[2] :
            scale[i + 1] \in RANGE(inst)

\* C23 as stated: a write_string_line(part, scale, total) without rhythms on
\* a Violin, Viola, Cello or Contrabass melody appends exactly total notes,
\* each in the instrument's range and from the scale (a scale whose window
\* serves the instrument); on another instrument it raises and leaves the
\* part as it was.
C23_AppendsTotalNotesInRange ==
    [][(fout'.calls = fout.calls + 1 /\ ~fout'.include_rhythm
          /\ WindowServes(fout.part.instrument, fin[2].scale)) =>
          IF fout.part.instrument \in {"Violin", "Viola", "Cello", "Contrabass"}
          THEN /\ fout'.err = "none"
               /\ Len(fout'.part.notes) = Len(fout.part.notes) + fout'.total
               /\ SubSeq(fout'.part.notes, 1, Len(fout.part.notes)) = fout.part.notes
               /\ \A i \in (Len(fout.part.notes) + 1)..Len(fout'.part.notes) :
                     /\ fout'.part.notes[i] \in RANGE(fout.part.instrument)
                     /\ InList(fout'.part.notes[i], fin[2].scale)
          ELSE fout'.err = "ValueError" /\ fout'.part = fout.part]_vars

\* C26 as stated: after any sequence of write_string_line calls with
\* include_rhythm=True on a melody that started empty (and has a tempo), the
\* melody has as many rhythms and dynamics as notes.
C26_LineSequencesEqualLength ==
    (fin[1] = "write_string_line" /\ fout.all_rhythm /\ fout.part.tempo # 0) =>
        /\ Len(fout.part.rhythms) = Len(fout.part.notes)
        /\ Len(fout.part.dynamics) = Len(fout.part.notes)

\* C24 as stated: Bar(meter, tempo), the instrument left out or supported,
\* raises and builds no Bar exactly when the meter given has a numerator that
\* is not positive or a denominator outside BEATS, or the tempo given is not
\* between 40 and 240; for every other meter and tempo it returns a Bar.
C24_BarFailsOnlyOnInvalid ==
    (/\ last[1] = "Bar"
     /\ last[2][3] = None \/ last[2][3][1] \in INSTRUMENTS)
    => LET invalid ==
             \/ last[2][1] # None /\ ~is_valid(last[2][1][1])
             \/ last[2][2] # None /\ ~(40 < last[2][2][1] /\ last[2][2][1] < 240)
       IN  /\ invalid => (err # "none" /\ ~hasBar)
           /\ ~invalid => (err = "none" /\ hasBar)

\* the names of pitch classes moved up by d semitones
TransposedNames(pcs, d) ==
    [i \in 1..Len(pcs) |-> PitchClassNames[((pcs[i] + d) % 12) + 1]]

\* C25 as stated: with transpose=True the notes pick_scale, pick_set,
\* generate_scale and pick_root return are the names of the chosen pitch
\* classes all moved up by one interval of 1..11 semitones, and the
\* description of pick_root names the first note of the list it returns.
C25_NotesAreTransposed ==
    (/\ fin[1] \in {"pick_scale", "pick_set", "generate_scale", "pick_root"}
     /\ fout # CallPending
     /\ fin[2].transpose)
    => LET r == fout.r
           p == IF fin[1] = "pick_root" THEN r.picked ELSE r
           orig == IF p.name = "invented" THEN p.drawn ELSE p.pcs
           notes == IF fin[1] = "pick_root" THEN r.scale ELSE r.notes
       IN  /\ \E d \in 1..11 : notes = TransposedNames(orig, d)
           /\ fin[1] = "pick_root" => r.info[2] = r.scale[1]

\* C27 as stated: copy, retrograde and mutate leave every list of the melody
\* passed to them as it was, and afterwards a change made in place to a list
\* of the new melody does not show through the original, nor one made to a
\* list of the original through the new melody.
C27_CopyIsDeep ==
    [][(fin[1] = "copy" /\ fout'.n = fout.n + 1) =>
          /\ fout.res = NoObject =>
                View(fout'.heap, fout'.orig) = View(fout.heap, fout.orig)
          /\ (fout.res # NoObject /\ fout'.op[2] = "res") =>
                View(fout'.heap, fout'.orig) = View(fout.heap, fout.orig)
          /\ (fout.res # NoObject /\ fout'.op[2] = "orig") =>
                View(fout'.heap, fout'.res) = View(fout.heap, fout.res)]_vars

\* C28 as stated: the melodies a caller builds having strictly positive
\* rhythms, every rhythm committed to a bar and every rhythm left in the
\* melody add_notes returns is strictly positive: a note that ends exactly
\* on the end of the bar is not left in the remainder with rhythm 0.
C28_RhythmsStayPositive ==
    /\ \A i \in 1..Len(bar.Rhythms) : bar.Rhythms[i] > 0
    /\ \A i \in 1..Len(mel.rhythms) : mel.rhythms[i] > 0

\* the rhythms of the first k sections of FORM, each section's rhythms
\* scaled once to the tempo
RECURSIVE ScaledOnceUpTo(_, _, _)
ScaledOnceUpTo(sects, tempo, k) ==
    IF k = 0 THEN {<<>>}
    ELSE {front \o out : front \in ScaledOnceUpTo(sects, tempo, k - 1),
                         out \in ScaledLists(tempo, sects[FORM[k]])}

\* C29 as stated: scale_to_tempo on a list leaves the caller's list as it
\* was, so every scaling of the same list returns the same values; and in
\* rest() the guitar's rhythms are, section after section of FORM, the
\* rhythms of that section scaled once to the tempo of the composition.
C29_ScalingLeavesSourceUnchanged ==
    /\ fin[1] = "scale_list" =>
          /\ fout.src = fin[2].rhythms
          /\ \A i \in 1..Len(fout.outs) : fout.outs[i] \in ScaledLists(fin[2].tempo, fin[2].rhythms)
    /\ (fin[1] = "rest" /\ fout.stage = "assembling") =>
          fout.gtr \in ScaledOnceUpTo(GenerateSections(Rng(fin[2].seed)), fout.tempo, fout.f)

\* the exact sum of a sequence of rhythms
RECURSIVE ExactSum(_)
ExactSum(xs) == IF xs = <<>> THEN 0 ELSE xs[1] + ExactSum(Tail(xs))

\* the melody's total duration is less than 2^(Precision-2) bars, so that
\* the floats up to twice that total are no further apart than a bar is long
TotalWithinFloatGrid ==
    fin[1] = "quantize" =>
    ExactSum(fin[2].rhythms) <
        Pow2(Precision - 2) * BarLength(fin[2].meter, fin[2].tempo)

\* C30 as stated: quantizing a finite melody of equal-length sequences and
\* non-negative rhythms with fresh bars of positive length ends with an
\* empty remainder after finitely many bars, and an empty melody stays empty.
C30_QuantizationTerminates ==
    /\ <>[]is_empty(mel)
    /\ [][(fin[1] = "quantize" /\ is_empty(mel)) => is_empty(mel')]_vars

\* C30: quantizing a finite melody of equal-length sequences and
\* non-negative rhythms whose total duration is less than 2^(p-2) bars (p the
\* significand bits of the floats) with fresh bars of positive length ends
\* with an empty remainder after finitely many bars, also when one note is
\* longer than a whole bar; an empty melody stays empty.
C30_QuantizationTerminatesWithinFloatGrid ==
    /\ [](fin[1] = "quantize" /\ TotalWithinFloatGrid => <>[]is_empty(mel))
    /\ [][(fin[1] = "quantize" /\ is_empty(mel)) => is_empty(mel')]_vars

\* a melody with a note longer than two bars has been quantized to the end,
\* and the empty melody was handed to one more bar
C30_Witness ==
    /\ fin[1] = "quantize" /\ TotalWithinFloatGrid
    /\ \E i \in 1..Len(fin[2].rhythms) : fin[2].rhythms[i] > 2 * bar.length
    /\ hasBar /\ is_empty(mel) /\ Len(bar.Notes) = 0

====
